---- MODULE Spec2Model ----
(***************************************************************************)
(* The effect engine of the text-game core.  Spec is one EffectList owned  *)
(* by one hydrated EffectableEntity; OwnSpec is several entities with      *)
(* their lists, call by call; EntSpec is one entity with its attributes,   *)
(* saved and loaded; PlayerSpec is a Player, whose emit is gated, held by  *)
(* a manager; CallSpec is one getMaxAttribute call, frame by frame;        *)
(* GameSpec is the player manager, LoadSpec the same asked without force,  *)
(* ChanSpec the channels, AreaSpec an area and its rooms, RoomsSpec the    *)
(* same given and taken rooms only, QuestSpec a quest and its goals.  The  *)
(* list's operations are from                                              *)
(* src/src/EffectList.ts, the owner's event relay from src/unnamed/part_001*)
(* (EffectableEntity).  The Effect class itself (its constructor, clock,   *)
(* isCurrent, deactivate, pause/resume and the modifier hooks of the       *)
(* effect definitions) is not among the sources and is modelled from the   *)
(* specification.                                                          *)
(***************************************************************************)
EXTENDS Integers, Sequences, FiniteSets, Bags, TLC

VARIABLES
  now,      \* Date.now(), in milliseconds
  effects,  \* EffectList.effects: a JS Set, kept as its insertion-ordered sequence of effect ids
  pool,     \* every Effect instance ever inserted: id -> its fields
  nextId,   \* the id the next inserted Effect instance gets
  run,      \* history: the add() calls made in a row on a list that started empty
  out       \* what the last operation returned, delivered and notified

listVars == <<now, effects, pool, nextId, run, out>>

\* several entities, each with its own list
VARIABLES
  lists,    \* entity -> its EffectList.effects, as the insertion-ordered sequence of instances
  inst,     \* every Effect instance constructed: id -> its fields
  pend,     \* entity -> the serialized effects its list holds until it is hydrated
  hyd,      \* entity -> __hydrated
  attrs,    \* entity -> its Attributes: name -> the Attribute, if it has been added
  given,    \* entity -> __attributes, the data.attributes it was constructed with
  trace     \* what the last operation did, call by call

ownVars == <<lists, inst, pend, hyd, attrs, given, trace>>

\* the player manager and the channels
VARIABLES
  players,  \* PlayerManager.players: the Map, key -> the Player it holds (0: no entry)
  made,     \* every Player constructed: id -> its name and __pruned
  loader,   \* PlayerManager.loader is set
  pending,  \* the loadPlayer calls that await loader.fetch: the bag of their usernames
  saving,   \* the players of the save calls that await loader.update, a bag
  said      \* what the last call returned and which calls it made

gameVars == <<players, made, loader, pending, saving, said>>

\* one getMaxAttribute call, frame by frame
VARIABLES
  requires, \* the attribute definitions: name -> formula.requires (empty: no formula)
  stack,    \* the getMaxAttribute frames on the call stack, the innermost last
  result    \* how the outermost call ended, if it has

callVars == <<requires, stack, result>>

\* the entities that are players
VARIABLES
  plr       \* entity -> whether it is a Player, and its __pruned

\* an area and its rooms
VARIABLES
  rooms,    \* Area.rooms: the Map, room id -> the Room it holds
  floors,   \* Area.map: floor z -> whether its AreaFloor was made, and the room at each (x, y)
  found     \* what the last call of the area returned and emitted

areaVars == <<rooms, floors, found>>

\* a quest and its goals
VARIABLES
  quest,    \* the Quest: config.autoComplete, and goal by goal the percent of its getProgress()
  heard     \* what the last operation of the quest emitted and called, in order

questVars == <<quest, heard>>

vars == <<listVars, ownVars, gameVars, callVars, plr, areaVars, questVars>>

\* what each specification leaves alone
beyondList == <<ownVars, gameVars, callVars, plr, areaVars, questVars>>
beyondOwn == <<listVars, gameVars, callVars, plr, areaVars, questVars>>
beyondGame == <<listVars, ownVars, callVars, plr, areaVars, questVars>>
beyondCall == <<listVars, ownVars, gameVars, plr, areaVars, questVars>>
beyondPlayer == <<listVars, gameVars, callVars, areaVars, questVars>>
beyondBoth == <<listVars, callVars, areaVars, questVars>>
beyondArea == <<listVars, ownVars, gameVars, callVars, plr, questVars>>
beyondQuest == <<listVars, ownVars, gameVars, callVars, plr, areaVars>>

\* no area and no quest is followed
AreaIdle ==
  /\ rooms = <<>>
  /\ floors = <<>>
  /\ found = <<>>

QuestIdle ==
  /\ quest = <<>>
  /\ heard = <<>>

\* the manager is not part of the effect specifications
GameIdle ==
  /\ players = <<>>
  /\ made = <<>>
  /\ loader = FALSE
  /\ pending = EmptyBag
  /\ saving = EmptyBag
  /\ said = <<>>

\* no getMaxAttribute call is followed frame by frame
CallIdle ==
  /\ requires = <<>>
  /\ stack = <<>>
  /\ result = ""

\* no entity is followed
PlayerIdle == plr = <<>>

\* the entities of OwnSpec are not part of Spec, and the list of Spec not part of OwnSpec
OwnIdle ==
  /\ lists = <<>>
  /\ inst = <<>>
  /\ pend = <<>>
  /\ hyd = <<>>
  /\ attrs = <<>>
  /\ given = <<>>
  /\ trace = <<>>

(***************************************************************************)
(* Bounds of the model.                                                    *)
(***************************************************************************)
MaxEffects == 2      \* Effect instances inserted in one behaviour
MaxSteps == 1        \* seconds the clock advances
MaxRun == 4          \* adds counted in one run (saturating)
MaxDelta == 1        \* how far raiseAttribute and lowerAttribute move a delta from 0
MaxPlayers == 3      \* Player instances constructed in one behaviour
MaxCalls == 2        \* loadPlayer calls in flight at a time
MaxGoals == 3        \* goals of the quest
MaxRequires == 2     \* attributes one formula requires
MaxDepth == 8        \* frames the call stack holds before the engine throws a RangeError
StartTime == 1000000000  \* Date.now() when the model starts

MsPerSec == 1000     \* EffectList.emit: tickInterval * 1000
Infinity == 2000000000   \* config.duration of an effect that never expires
NoTick == -1         \* config.tickInterval === false (the only boolean used)

Min(a, b) == IF a < b THEN a ELSE b

Ids == 1..MaxEffects

(***************************************************************************)
(* JavaScript numbers, as far as damage evaluation needs them.             *)
(* A number is NaN, an integer v, or v + 0.5 (half).                         *)
(***************************************************************************)
Num(i) == [nan |-> FALSE, v |-> i, half |-> FALSE]
NaN == [nan |-> TRUE, v |-> 0, half |-> FALSE]
Frac(i) == [nan |-> FALSE, v |-> i, half |-> TRUE]

\* -x
Negate(x) == IF x.nan THEN x ELSE [x EXCEPT !.v = IF x.half THEN 0 - @ - 1 ELSE 0 - @]

\* x + i for an integer i
Plus(x, i) == IF x.nan THEN x ELSE [x EXCEPT !.v = @ + i]

\* Math.floor(x)
MathFloor(x) == IF x.nan THEN x ELSE [x EXCEPT !.half = FALSE]

\* JS truthiness of a counter: 0 and undefined are falsy
Truthy(n) == n # 0

\* Math.max(x, 0)
MathMax0(x) == IF x.nan THEN NaN ELSE IF x.v >= 0 THEN x ELSE Num(0)

\* x || 0
OrZero(x) == IF x.nan \/ (x.v = 0 /\ ~x.half) THEN Num(0) ELSE x

(***************************************************************************)
(* Effect definitions: the immutable config of each effect type and the    *)
(* modifier hooks its definition supplies.                                 *)
(***************************************************************************)
Types == {"poison", "stun", "regen", "bleed", "ward"}

Config(t) ==
  CASE t = "poison" -> [maxStacks |-> 3, refreshes |-> FALSE, unique |-> TRUE,
                        persists |-> TRUE, tickInterval |-> 2, duration |-> Infinity]
    [] t = "stun"   -> [maxStacks |-> 0, refreshes |-> FALSE, unique |-> TRUE,
                        persists |-> FALSE, tickInterval |-> NoTick, duration |-> MsPerSec]
    [] t = "regen"  -> [maxStacks |-> 0, refreshes |-> TRUE, unique |-> TRUE,
                        persists |-> TRUE, tickInterval |-> NoTick, duration |-> 2 * MsPerSec]
    [] t = "bleed"  -> [maxStacks |-> 0, refreshes |-> FALSE, unique |-> FALSE,
                        persists |-> TRUE, tickInterval |-> NoTick, duration |-> MsPerSec]
    [] t = "ward"   -> [maxStacks |-> 1, refreshes |-> FALSE, unique |-> TRUE,
                        persists |-> FALSE, tickInterval |-> NoTick, duration |-> Infinity]

\* Effect.modifyAttribute / Effect.modifyProperty of the type's definition
ModifyAttribute(t, v) ==
  CASE t = "poison" -> v - 1
    [] t = "regen"  -> v + 5
    [] OTHER        -> v

ModifyProperty(t, v) ==
  CASE t = "stun"   -> 0
    [] t = "ward"   -> v + 1
    [] OTHER        -> v

\* Effect.modifyIncomingDamage / Effect.modifyOutgoingDamage of the type's definition
ModifyIncomingDamage(t, x) ==
  CASE t = "ward"   -> Plus(x, -5)
    [] t = "stun"   -> NaN
    [] t = "bleed"  -> Plus(x, 2)
    [] OTHER        -> x

ModifyOutgoingDamage(t, x) ==
  CASE t = "poison" -> Negate(x)
    [] t = "regen"  -> NaN
    [] OTHER        -> x

(***************************************************************************)
(* Effect instances.                                                       *)
(***************************************************************************)
Never == -1   \* state.lastTick of an effect that has not ticked (-Infinity)

NoEffect == [type |-> "none", stacks |-> 0, ticks |-> 0, lastTick |-> Never,
             expiresAt |-> 0, paused |-> FALSE, target |-> FALSE,
             deactivated |-> FALSE, tickedAt |-> Never]

\* the stacks a fresh effect of a type is constructed with: its own application
\* counts as one stack of a stacking type
FreshStacks(type) == IF Config(type).maxStacks > 0 THEN 1 ELSE 0

\* the time an effect activated at time t stops being current: startedAt + duration
\* (Infinity + t is Infinity)
ExpiresAt(type, t) ==
  IF Config(type).duration = Infinity THEN Infinity ELSE t + Config(type).duration

\* new Effect(...) of a type, activated at time t when it is added
NewEffect(type, t) ==
  [type |-> type, stacks |-> FreshStacks(type), ticks |-> 0, lastTick |-> Never,
   expiresAt |-> ExpiresAt(type, t), paused |-> FALSE, target |-> TRUE,
   deactivated |-> FALSE, tickedAt |-> Never]

\* Effect.isCurrent(): the duration has not elapsed (elapsed < duration)
IsCurrent(r, t) == t < r.expiresAt

Range(list) == {list[i] : i \in DOMAIN list}

(***************************************************************************)
(* What an operation lets its caller and the listeners observe.            *)
(*   ok      add()'s boolean result                                        *)
(*   threw   the operation raised an error                                 *)
(*   rule    the branch of add() that decided, on the existing effect `on` *)
(*   val     the number an evaluate* call returned                         *)
(*   raw     the amount the damage modifiers left, before it is floored    *)
(*   seen    the effects a read returned or folded over, in order          *)
(*   fired   the events delivered to effects: <<id, event>>                *)
(*   notes   the events emitted on the owning entity: <<event, id>>        *)
(***************************************************************************)
Out(op) == [op |-> op, type |-> "none", event |-> "none", rule |-> "none", on |-> 0,
            ok |-> TRUE, threw |-> FALSE, val |-> Num(0), raw |-> Num(0), arg |-> Num(0),
            size |-> 0, seen |-> <<>>, fired |-> <<>>, notes |-> <<>>]

NoRun == [type |-> "none", n |-> 0]

(***************************************************************************)
(* EffectList.validateEffects, with remove() of each expired member.       *)
(* remove() notifies the owner, whose emit relays effectRemoved into the   *)
(* list's emit, which validates again before it returns: the nested sweep  *)
(* removes the remaining expired members, so each is removed once, in      *)
(* list order.                                                             *)
(***************************************************************************)
\* a sweep that takes every member for current
StaleNever(r, t) == FALSE

\* if (!effect.isCurrent()): the member is removed
Stale(r, t) == ~IsCurrent(r, t)

\* the members validateEffects leaves in the list
ValidateEffects(list, p, t) == SelectSeq(list, LAMBDA e : ~Stale(p[e], t))

\* the members validateEffects removes
Expired(list, p, t) == SelectSeq(list, LAMBDA e : Stale(p[e], t))

\* an effect that has left the list: the list reads nothing of it again but its
\* target, so only that (and whether it was deactivated) is kept
Left(r, deactivated) ==
  [NoEffect EXCEPT !.target = r.target, !.deactivated = deactivated]

\* Effect.deactivate() on each of `ids`, which then leave the list
Deactivate(p, ids) ==
  [e \in Ids |-> IF e \in ids THEN Left(p[e], TRUE) ELSE p[e]]

\* Character#effectRemoved for each removed effect
RemovedNotes(list) == [i \in DOMAIN list |-> <<"effectRemoved", list[i]>>]

(***************************************************************************)
(* EffectList.add: the scan of the list for a member of the new effect's   *)
(* type, and the first rule that matches.                                  *)
(***************************************************************************)
\* (activeEffect.config.maxStacks && activeEffect.state.stacks) || 0 < activeEffect.config.maxStacks
StackRule(r) ==
  (Truthy(Config(r.type).maxStacks) /\ Truthy(r.stacks)) \/ 0 < Config(r.type).maxStacks

\* Math.min(activeEffect.config.maxStacks, activeEffect.state.stacks || 0 + 1)
StackedCount(r) ==
  Min(Config(r.type).maxStacks, IF Truthy(r.stacks) THEN r.stacks ELSE 0 + 1)

\* activeEffect.config.refreshes
RefreshRule(r) == Config(r.type).refreshes

\* a scan that lets duplicates of a unique type through
UniqueIgnored(r) == FALSE

\* activeEffect.config.unique
UniqueRule(r) == Config(r.type).unique

\* for (const activeEffect of this.effects): the rule that decides and the member it is taken on
RECURSIVE Scan(_, _, _)
Scan(list, p, type) ==
  IF list = <<>> THEN [rule |-> "insert", on |-> 0]
  ELSE LET a == Head(list) IN
       IF p[a].type = type
       THEN IF StackRule(p[a]) THEN [rule |-> "stack", on |-> a]
            ELSE IF RefreshRule(p[a]) THEN [rule |-> "refresh", on |-> a]
            ELSE IF UniqueRule(p[a]) THEN [rule |-> "unique", on |-> a]
            ELSE Scan(Tail(list), p, type)
       ELSE Scan(Tail(list), p, type)

\* history: one more add() of `type` in a row, on a list that was empty when the row began
RunAfterAdd(type) ==
  IF run.n > 0 /\ run.type = type THEN [type |-> type, n |-> Min(run.n + 1, MaxRun)]
  ELSE IF effects = <<>> THEN [type |-> type, n |-> 1]
  ELSE NoRun

\* add(effect) of an effect that has no target yet
Add(type) ==
  LET hit == Scan(effects, pool, type) IN
  /\ run' = RunAfterAdd(type)
  /\ UNCHANGED now
  /\ CASE hit.rule = "stack" ->
            /\ pool' = [pool EXCEPT ![hit.on].stacks = StackedCount(pool[hit.on])]
            /\ UNCHANGED <<effects, nextId>>
            /\ out' = [Out("add") EXCEPT !.type = type, !.rule = "stack", !.on = hit.on,
                         !.ok = TRUE, !.fired = << <<hit.on, "effectStackAdded">> >>]
       [] hit.rule = "refresh" ->
            /\ UNCHANGED <<effects, pool, nextId>>
            /\ out' = [Out("add") EXCEPT !.type = type, !.rule = "refresh", !.on = hit.on,
                         !.ok = TRUE, !.fired = << <<hit.on, "effectRefreshed">> >>]
       [] hit.rule = "unique" ->
            /\ UNCHANGED <<effects, pool, nextId>>
            /\ out' = [Out("add") EXCEPT !.type = type, !.rule = "unique", !.on = hit.on,
                         !.ok = FALSE]
       [] hit.rule = "insert" ->
            /\ nextId <= MaxEffects
            /\ LET new == nextId
                   p1 == [pool EXCEPT ![new] = NewEffect(type, now)]
                   all == Append(effects, new)
                   gone == Expired(all, p1, now)
               IN /\ effects' = ValidateEffects(all, p1, now)
                  /\ pool' = Deactivate(p1, Range(gone))
                  /\ nextId' = nextId + 1
                  /\ out' = [Out("add") EXCEPT !.type = type, !.rule = "insert", !.on = new,
                               !.ok = TRUE, !.fired = << <<new, "effectAdded">> >>,
                               !.notes = << <<"effectAdded", new>> >> \o RemovedNotes(gone)]

\* add(effect) of an effect whose target is set: throws before anything else
AddAttached(e) ==
  /\ pool[e].target
  /\ out' = [Out("add") EXCEPT !.on = e, !.threw = TRUE, !.ok = FALSE]
  /\ run' = NoRun
  /\ UNCHANGED <<now, effects, pool, nextId>>

Init ==
  /\ now = StartTime
  /\ effects = <<>>
  /\ pool = [e \in Ids |-> NoEffect]
  /\ nextId = 1
  /\ run = NoRun
  /\ out = Out("init")
  /\ OwnIdle
  /\ GameIdle
  /\ CallIdle
  /\ PlayerIdle
  /\ AreaIdle
  /\ QuestIdle

\* the wall clock moves on by one second
Advance ==
  /\ now < StartTime + MaxSteps * MsPerSec
  /\ now' = now + MsPerSec
  /\ run' = NoRun
  /\ out' = Out("advance")
  /\ UNCHANGED <<effects, pool, nextId>>

(***************************************************************************)
(* EffectList.remove and EffectList.clear.                                 *)
(***************************************************************************)
\* remove(effect): a member is deactivated, deleted and reported to the owner, whose
\* relay of effectRemoved into the list sweeps the expired members that are left
Remove(e) ==
  /\ pool[e].target
  /\ IF e \in Range(effects)
     THEN LET rest == SelectSeq(effects, LAMBDA x : x # e)
              gone == Expired(rest, pool, now)
          IN /\ effects' = ValidateEffects(rest, pool, now)
             /\ pool' = Deactivate(pool, {e} \cup Range(gone))
             /\ out' = [Out("remove") EXCEPT !.on = e,
                          !.notes = << <<"effectRemoved", e>> >> \o RemovedNotes(gone)]
     ELSE /\ out' = [Out("remove") EXCEPT !.on = e, !.threw = TRUE]
          /\ UNCHANGED <<effects, pool>>
  /\ run' = NoRun
  /\ UNCHANGED <<now, nextId>>

\* clear(): the set is replaced by an empty one
\* a clear() that removes each member the way remove() does
ClearRemoving ==
  /\ effects' = <<>>
  /\ pool' = Deactivate(pool, Range(effects))
  /\ out' = [Out("clear") EXCEPT !.notes = RemovedNotes(effects)]
  /\ run' = NoRun
  /\ UNCHANGED <<now, nextId>>

Clear ==
  /\ effects' = <<>>
  /\ pool' = [e \in Ids |-> IF e \in Range(effects) THEN Left(pool[e], FALSE) ELSE pool[e]]
  /\ out' = Out("clear")
  /\ run' = NoRun
  /\ UNCHANGED <<now, nextId>>

(***************************************************************************)
(* Effect.pause / Effect.resume on a member.                               *)
(***************************************************************************)
Pause(e) ==
  /\ e \in Range(effects)
  /\ ~pool[e].paused
  /\ pool' = [pool EXCEPT ![e].paused = TRUE]
  /\ out' = [Out("pause") EXCEPT !.on = e]
  /\ run' = NoRun
  /\ UNCHANGED <<now, effects, nextId>>

Resume(e) ==
  /\ e \in Range(effects)
  /\ pool[e].paused
  /\ pool' = [pool EXCEPT ![e].paused = FALSE]
  /\ out' = [Out("resume") EXCEPT !.on = e]
  /\ run' = NoRun
  /\ UNCHANGED <<now, effects, nextId>>

(***************************************************************************)
(* EffectList.emit.                                                        *)
(***************************************************************************)
Events == {"updateTick", "damaged", "effectAdded", "effectRemoved"}

\* typeof effect.config.tickInterval !== 'boolean'
NumericInterval(r) == Config(r.type).tickInterval # NoTick

\* Date.now() - (effect.state.ticks || 0)
SinceLastTick(r, t) == t - (IF Truthy(r.ticks) THEN r.ticks ELSE 0)

\* the updateTick gate: the member is skipped (continue)
Gated(r, event, t) ==
  /\ event = "updateTick"
  /\ NumericInterval(r)
  /\ SinceLastTick(r, t) < Config(r.type).tickInterval * MsPerSec

\* a loop that hands the event to paused effects too
DeliversPaused(r, event, t) == ~Gated(r, event, t)

\* effect.emit(event, ...args) is reached for the member
Delivers(r, event, t) == ~r.paused /\ ~Gated(r, event, t)

\* effect.state.ticks && effect.state.ticks++
TicksAfter(r) == IF Truthy(r.ticks) THEN r.ticks + 1 ELSE r.ticks

\* the member after the loop body: stamped and counted when an updateTick passes the gate
AfterEmit(r, event, t) ==
  IF ~Delivers(r, event, t) \/ event # "updateTick" THEN r
  ELSE IF NumericInterval(r)
       THEN [r EXCEPT !.lastTick = t, !.ticks = TicksAfter(r), !.tickedAt = t]
       ELSE r

\* emit(event): validate, drop effectAdded/effectRemoved, then the loop over the members
Emit(event) ==
  LET gone == Expired(effects, pool, now)
      live == ValidateEffects(effects, pool, now)
      p1 == Deactivate(pool, Range(gone))
      relayed == event \notin {"effectAdded", "effectRemoved"}
      got == SelectSeq(live, LAMBDA e : relayed /\ Delivers(p1[e], event, now))
  IN /\ effects' = live
     /\ pool' = [e \in Ids |-> IF relayed /\ e \in Range(live)
                                THEN AfterEmit(p1[e], event, now) ELSE p1[e]]
     /\ out' = [Out("emit") EXCEPT !.event = event,
                  !.fired = [i \in DOMAIN got |-> <<got[i], event>>],
                  !.notes = RemovedNotes(gone)]
     /\ run' = NoRun
     /\ UNCHANGED <<now, nextId>>

(***************************************************************************)
(* The reads: each validates, then returns or folds over what is left.     *)
(***************************************************************************)
\* the state every read leaves behind, and what it reports of the sweep
Read(o) ==
  LET gone == Expired(effects, pool, now) IN
  /\ effects' = ValidateEffects(effects, pool, now)
  /\ pool' = Deactivate(pool, Range(gone))
  /\ out' = [o EXCEPT !.notes = RemovedNotes(gone)]
  /\ run' = NoRun
  /\ UNCHANGED <<now, nextId>>

Unpaused(list, p) == SelectSeq(list, LAMBDA e : ~p[e].paused)

\* get size
Size ==
  LET live == ValidateEffects(effects, pool, now) IN
  Read([Out("size") EXCEPT !.size = Len(live), !.seen = live])

\* entries()
Entries ==
  LET live == ValidateEffects(effects, pool, now) IN
  Read([Out("entries") EXCEPT !.size = Len(live), !.seen = live])

RECURSIVE FoldAttribute(_, _, _)
FoldAttribute(list, p, v) ==
  IF list = <<>> THEN v
  ELSE FoldAttribute(Tail(list), p, ModifyAttribute(p[Head(list)].type, v))

RECURSIVE FoldProperty(_, _, _)
FoldProperty(list, p, v) ==
  IF list = <<>> THEN v
  ELSE FoldProperty(Tail(list), p, ModifyProperty(p[Head(list)].type, v))

RECURSIVE FoldIncoming(_, _, _)
FoldIncoming(list, p, x) ==
  IF list = <<>> THEN x
  ELSE FoldIncoming(Tail(list), p, ModifyIncomingDamage(p[Head(list)].type, x))

RECURSIVE FoldOutgoing(_, _, _)
FoldOutgoing(list, p, x) ==
  IF list = <<>> THEN x
  ELSE FoldOutgoing(Tail(list), p, ModifyOutgoingDamage(p[Head(list)].type, x))

\* a result that is handed back as the modifiers left it
Unclamped(x) == x

\* Math.max(currentAmount, 0) || 0
ClampDamage(x) == OrZero(MathMax0(x))

\* evaluateAttribute(attr): attr.base || 0 folded through the unpaused members
EvaluateAttribute(base) ==
  LET used == Unpaused(ValidateEffects(effects, pool, now), pool) IN
  Read([Out("evaluateAttribute") EXCEPT !.seen = used, !.arg = Num(base),
          !.val = Num(FoldAttribute(used, pool, base))])

\* evaluateProperty(propertyName, propertyValue)
EvaluateProperty(value) ==
  LET used == Unpaused(ValidateEffects(effects, pool, now), pool) IN
  Read([Out("evaluateProperty") EXCEPT !.seen = used, !.arg = Num(value),
          !.val = Num(FoldProperty(used, pool, value))])

\* evaluateIncomingDamage(damage, currentAmount): every member modifies, paused or not
EvaluateIncomingDamage(amount) ==
  LET used == ValidateEffects(effects, pool, now) IN
  Read([Out("evaluateIncomingDamage") EXCEPT !.seen = used, !.arg = amount,
          !.raw = FoldIncoming(used, pool, amount),
          !.val = ClampDamage(FoldIncoming(used, pool, amount))])

\* evaluateOutgoingDamage(damage, currentAmount)
EvaluateOutgoingDamage(amount) ==
  LET used == ValidateEffects(effects, pool, now) IN
  Read([Out("evaluateOutgoingDamage") EXCEPT !.seen = used, !.arg = amount,
          !.raw = FoldOutgoing(used, pool, amount),
          !.val = ClampDamage(FoldOutgoing(used, pool, amount))])

\* serialize(): the members that persist
Serialize ==
  LET live == ValidateEffects(effects, pool, now)
      kept == SelectSeq(live, LAMBDA e : Config(pool[e].type).persists)
  IN Read([Out("serialize") EXCEPT !.seen = kept, !.size = Len(kept)])

\* the amounts and values the callers pass
Bases == {10}
Amounts == {Num(-3), Num(4)}

Next ==
  \/ (\E type \in Types : Add(type)) /\ UNCHANGED beyondList
  \/ (\E e \in Ids : AddAttached(e)) /\ UNCHANGED beyondList
  \/ (\E e \in Ids : Remove(e)) /\ UNCHANGED beyondList
  \/ Clear /\ UNCHANGED beyondList
  \/ (\E e \in Ids : Pause(e)) /\ UNCHANGED beyondList
  \/ (\E e \in Ids : Resume(e)) /\ UNCHANGED beyondList
  \/ (\E event \in Events : Emit(event)) /\ UNCHANGED beyondList
  \/ Size /\ UNCHANGED beyondList
  \/ Entries /\ UNCHANGED beyondList
  \/ (\E base \in Bases : EvaluateAttribute(base)) /\ UNCHANGED beyondList
  \/ (\E value \in Bases : EvaluateProperty(value)) /\ UNCHANGED beyondList
  \/ (\E amount \in Amounts : EvaluateIncomingDamage(amount)) /\ UNCHANGED beyondList
  \/ (\E amount \in Amounts : EvaluateOutgoingDamage(amount)) /\ UNCHANGED beyondList
  \/ Serialize /\ UNCHANGED beyondList
  \/ Advance /\ UNCHANGED beyondList

Spec == Init /\ [][Next]_vars

(***************************************************************************)
(* Attributes of an entity.  The Attribute class and the attribute         *)
(* definitions are not among the sources and follow the specification.     *)
(***************************************************************************)
AttrNames == {"strength", "power"}

\* formula.requires of the attribute's definition
Requires(name) == IF name = "power" THEN <<"strength">> ELSE <<>>

\* attribute.formula
HasFormula(name) == name = "power"

\* formula.evaluate(attribute, entity, currentVal, ...requiredValues)
FormulaEvaluate(name, currentVal, requiredValues) == currentVal + requiredValues[1]

\* the attribute an effect type's modifyAttribute changes
ModifiedAttribute(t) ==
  CASE t = "regen"  -> "strength"
    [] t = "poison" -> "power"
    [] OTHER        -> "none"

\* effect.modifyAttribute(attrName, attrValue)
ModifyNamed(t, name, v) == IF name = ModifiedAttribute(t) THEN ModifyAttribute(t, v) ELSE v

NoAttribute == [has |-> FALSE, base |-> 0, delta |-> 0]

\* an entry of data.attributes: absent, a bare number, {base, delta}, or a value that is
\* neither (a string, an object without base); `known` tells whether
\* state.AttributeFactory has the name
NotGiven == [kind |-> "none", base |-> 0, delta |-> 0, known |-> TRUE]
GivenNumber(base) == [kind |-> "number", base |-> base, delta |-> 0, known |-> TRUE]
GivenObject(base, delta) == [kind |-> "object", base |-> base, delta |-> delta, known |-> TRUE]
GivenInvalid == [kind |-> "invalid", base |-> 0, delta |-> 0, known |-> TRUE]
GivenUnknown(base) == [kind |-> "number", base |-> base, delta |-> 0, known |-> FALSE]

\* AttributeFactory.create(attr, attrConfig.base, attrConfig.delta || 0)
Created(cfg) ==
  [has |-> TRUE, base |-> cfg.base, delta |-> IF Truthy(cfg.delta) THEN cfg.delta ELSE 0]

\* for (const attr in attributes) ... this.addAttribute(...)
CreatedAttributes(a, g) ==
  [name \in AttrNames |-> IF g[name].kind = "none" THEN a[name] ELSE Created(g[name])]

\* the order in which `for (const attr in attributes)` meets the names
AttrOrder == <<"strength", "power">>

\* a hydrate that takes any attribute spec
AnyConfig(cfg) == FALSE

\* typeof attrConfig !== 'object' || !('base' in attrConfig), after a number was wrapped
InvalidConfig(cfg) == cfg.kind = "invalid"

\* !state.AttributeFactory.has(attr)
UnknownAttribute(cfg) == ~cfg.known

\* the attribute loop of hydrate(): it stops at the first entry it throws on, and the
\* attributes created before that stay added
RECURSIVE HydrateAttributes(_, _, _)
HydrateAttributes(a, g, order) ==
  IF order = <<>> THEN [attrs |-> a, threw |-> FALSE]
  ELSE LET name == Head(order) IN
       IF g[name].kind = "none" THEN HydrateAttributes(a, g, Tail(order))
       ELSE IF InvalidConfig(g[name]) \/ UnknownAttribute(g[name])
       THEN [attrs |-> a, threw |-> TRUE]
       ELSE HydrateAttributes([a EXCEPT ![name] = Created(g[name])], g, Tail(order))

\* Attributes.serialize(): {name: {base, delta}}
SerializedAttributes(a) ==
  [name \in AttrNames |-> IF a[name].has THEN GivenObject(a[name].base, a[name].delta)
                          ELSE NotGiven]

\* Attribute.raise(amount), lower(amount), setDelta(amount), setBase(amount)
Raised(r, amount) == [r EXCEPT !.delta = @ + amount]
Lowered(r, amount) == [r EXCEPT !.delta = @ - amount]
WithDelta(r, amount) == [r EXCEPT !.delta = amount]
WithBase(r, amount) == [r EXCEPT !.base = amount]

\* EffectList.evaluateAttribute: the loop over the members
RECURSIVE FoldNamed(_, _, _, _)
FoldNamed(list, p, name, v) ==
  IF list = <<>> THEN v
  ELSE FoldNamed(Tail(list), p, name, ModifyNamed(p[Head(list)].type, name, v))

\* EffectList.evaluateAttribute(attr) on a list that has been swept: attr.base || 0
\* folded through the unpaused members
EvaluatedAttribute(list, p, a, name) ==
  FoldNamed(Unpaused(list, p), p, name, IF Truthy(a[name].base) THEN a[name].base ELSE 0)

\* what getMaxAttribute hands back: the number it returns, or the RangeError it throws
Returned(val) == [threw |-> FALSE, val |-> val]
RangeError == [threw |-> TRUE, val |-> 0]

RECURSIVE MaxAttribute(_, _, _, _)

\* a formula that is handed the raw base of what it requires
RequiredBase(list, p, a, name) == Returned(a[name].base)

\* formula.requires.map((reqAttr) => this.getMaxAttribute(reqAttr))
RequiredValue(list, p, a, name) == MaxAttribute(list, p, a, name)

\* getMaxAttribute(attrString) on a list that has been swept: RangeError unless the
\* entity has the attribute; the attribute's own folded value; with a formula, the max of
\* every attribute it requires, the first RangeError among them ending the call
MaxAttribute(list, p, a, name) ==
  IF ~a[name].has THEN RangeError
  ELSE LET currentVal == EvaluatedAttribute(list, p, a, name)
           required == [i \in DOMAIN Requires(name) |->
                          RequiredValue(list, p, a, Requires(name)[i])]
       IN IF ~HasFormula(name) THEN Returned(currentVal)
          ELSE IF \E i \in DOMAIN required : required[i].threw THEN RangeError
          ELSE Returned(FormulaEvaluate(name, currentVal,
                          [i \in DOMAIN required |-> required[i].val]))

\* a current value that forgets the delta
MaxOnly(max, delta) == max

\* getAttribute: this.getMaxAttribute(attrName) + attr.delta
CurrentValue(max, delta) == max + delta

(***************************************************************************)
(* Several entities, each owning one list: EffectableEntity.emit relays    *)
(* into the list, whose sweep removes, whose remove emits on the entity    *)
(* again.  The calls are followed one by one and recorded in order.        *)
(***************************************************************************)
Entities == {1, 2}

\* an EffectableEntity that is no Player, and a Player as constructed
\* this.equipment: a plain object of item definitions by slot as it comes from storage, or
\* a Map of items by slot
Slots == {"wield"}
StoredEquipment == [map |-> FALSE, slots |-> Slots]
NewMap == [map |-> TRUE, slots |-> {}]

NotPlayer == [is |-> FALSE, pruned |-> FALSE, equipment |-> NewMap, room |-> "none"]
APlayer == [is |-> TRUE, pruned |-> FALSE, equipment |-> NewMap, room |-> "none"]

\* none of the entities is a Player
NoPlayers == plr = [ent \in Entities |-> NotPlayer]

\* the effect types the entities are given: unique, duplicating, stacking
OwnTypes == {"stun", "bleed", "ward"}

\* the events emitted on an entity from outside
OwnEvents == {"damaged", "effectAdded", "effectRemoved"}

\* data.effects an entity is constructed with
Stored == {<<>>, << [type |-> "bleed", stacks |-> 0] >>}

\* an Effect instance: owner is its target (0: none), deact the calls of deactivate(),
\* listening whether the list's 'remove' listener is registered on it
NoInst == [type |-> "none", stacks |-> 0, elapsed |-> 0, paused |-> FALSE,
           owner |-> 0, deact |-> 0, listening |-> FALSE]

\* new Effect(...) of a type: nothing of its duration has elapsed
NewInst(type) == [NoInst EXCEPT !.type = type, !.stacks = FreshStacks(type)]

\* new Effect(...) whose duration has elapsed already
OverInst(type) == [NewInst(type) EXCEPT !.elapsed = Config(type).duration]

\* Effect.serialize(): the id of the definition and the state
SerializedEffect(r) == [type |-> r.type, stacks |-> r.stacks]

\* EffectFactory.create(entry.id) and Effect.hydrate(state, entry)
HydratedInst(entry) == [NewInst(entry.type) EXCEPT !.stacks = entry.stacks]

\* Effect.isCurrent(): elapsed < duration; an effect that was swept out of its list
\* is over for good
StillCurrent(r) == r.type # "none" /\ r.elapsed < Config(r.type).duration

\* a second later: the elapsed time of an effect whose duration ends (kept up to
\* the duration, past which it makes no difference)
Later(r) ==
  IF r.type = "none" \/ Config(r.type).duration = Infinity THEN r
  ELSE [r EXCEPT !.elapsed = Min(@ + MsPerSec, Config(r.type).duration)]

\* an effect that loses the list's listener as it leaves the list
GoneUnheard(r) == [NoInst EXCEPT !.owner = r.owner, !.deact = r.deact]

\* an instance that has left its list: the lists read nothing of it again but its target
Gone(r) == [NoInst EXCEPT !.owner = r.owner, !.deact = r.deact, !.listening = r.listening]

Unborn(p) == {e \in Ids : p[e].type = "none" /\ p[e].owner = 0}

\* the first instance id not in use
FreshIn(p) == CHOOSE e \in Unborn(p) : \A x \in Unborn(p) : e <= x

\* Set.add: an element already present keeps its place
SetAdd(list, e) == IF e \in Range(list) THEN list ELSE Append(list, e)

\* a call in progress on the list of entity `ent`: the list, the instances, the calls
\* made so far, and whether an exception is propagating
World(ent) ==
  [ent |-> ent, list |-> lists[ent], inst |-> inst,
   raw |-> pend[ent] # <<>>, events |-> <<>>, threw |-> FALSE, ok |-> TRUE,
   rule |-> "none", player |-> plr[ent].is,
   muted |-> plr[ent].is /\ (plr[ent].pruned \/ ~hyd[ent])]

ThrowW(w, what) ==
  [w EXCEPT !.threw = TRUE, !.ok = FALSE, !.events = Append(@, <<"throw", what, 0>>)]

\* an effect that add() lets in whatever its target
AttachedNever(r) == FALSE

\* if (effect.target)
Attached(r) == r.owner # 0

\* a list that takes every effect for a member
AlwaysMember(list, e) == TRUE

\* this.effects.has(effect)
IsMember(list, e) == e \in Range(list)

\* a loop over a copy of the set made when the loop starts
VisitsCopy(list, e) == TRUE

\* for (const effect of this.effects): an entry deleted before the loop reaches it is
\* not visited
Visits(list, e) == e \in Range(list)

RECURSIVE RemoveW(_, _), EntityEmitW(_, _, _), SweepW(_, _), TargetEmitW(_, _, _)

\* validateEffects(): the loop, `todo` being the entries it has not reached yet
SweepW(w, todo) ==
  IF w.threw \/ todo = <<>> THEN w
  ELSE LET e == Head(todo) IN
       IF Visits(w.list, e) /\ ~StillCurrent(w.inst[e])
       THEN SweepW(RemoveW(w, e), Tail(todo))
       ELSE SweepW(w, Tail(todo))

\* validateEffects() of a list that still holds serialized entries calls isCurrent
\* on a plain object
ValidateW(w) ==
  IF w.threw THEN w
  ELSE IF w.raw THEN ThrowW(w, "TypeError")
  ELSE SweepW(w, w.list)

\* the updateTick gate of emit for an effect whose state.ticks is 0, as it is constructed
\* and as `ticks && ticks++` leaves it: Date.now() - 0 < tickInterval * 1000
SkipsTick(r, event) ==
  /\ event = "updateTick"
  /\ NumericInterval(r)
  /\ StartTime < Config(r.type).tickInterval * MsPerSec

\* the members the loop of emit hands the event to: if (effect.paused) continue; then
\* the updateTick gate
Reached(list, p, event) ==
  SelectSeq(list, LAMBDA e : ~p[e].paused /\ ~SkipsTick(p[e], event))

\* EffectList.emit(event, ...args)
ListEmitW(w, event, arg) ==
  LET w1 == ValidateW([w EXCEPT !.events = Append(@, <<"relay", event, arg>>)]) IN
  IF w1.threw \/ event \in {"effectAdded", "effectRemoved"} THEN w1
  ELSE LET got == Reached(w1.list, w1.inst, event) IN
       [w1 EXCEPT !.events = @ \o [i \in DOMAIN got |-> <<"effect", event, got[i]>>]]

\* an entity that relays before its own listeners hear the event
RelayFirst(w, event, arg) ==
  IF w.threw THEN w
  ELSE LET w1 == ListEmitW(w, event, arg) IN
       IF w1.threw THEN w1
       ELSE [w1 EXCEPT !.events = Append(@, <<"listeners", event, arg>>)]

\* EffectableEntity.emit(event, ...args): super.emit, then this.effects.emit
EntityEmitW(w, event, arg) ==
  IF w.threw THEN w
  ELSE ListEmitW([w EXCEPT !.events = Append(@, <<"listeners", event, arg>>)], event, arg)

\* a Player that hands every event on, hydrated or not, pruned or not
PlayerEmitUngated(w, event, arg) ==
  IF w.threw THEN w
  ELSE LET w1 == EntityEmitW(w, event, arg) IN
       IF w1.threw THEN w1 ELSE [w1 EXCEPT !.events = Append(@, <<"quests", event, arg>>)]

\* Player.emit(event, ...args): nothing while pruned or not hydrated; else super.emit,
\* then this.questTracker.emit
PlayerEmitW(w, event, arg) ==
  IF w.threw THEN w
  ELSE IF w.muted THEN [w EXCEPT !.events = Append(@, <<"dropped", event, arg>>)]
  ELSE LET w1 == EntityEmitW(w, event, arg) IN
       IF w1.threw THEN w1 ELSE [w1 EXCEPT !.events = Append(@, <<"quests", event, arg>>)]

\* this.target.emit(...) / entity.emit(...): the emit of the entity's class
TargetEmitW(w, event, arg) ==
  IF w.player THEN PlayerEmitW(w, event, arg) ELSE EntityEmitW(w, event, arg)

\* EffectList.remove(effect)
RemoveW(w, e) ==
  IF w.threw THEN w
  ELSE IF ~IsMember(w.list, e) THEN ThrowW(w, "ReferenceError")
  ELSE LET w1 == [w EXCEPT !.inst[e] = [Gone(@) EXCEPT !.deact = @ + 1],
                           !.events = Append(@, <<"deactivate", "", e>>)]
           w2 == [w1 EXCEPT !.list = SelectSeq(@, LAMBDA x : x # e),
                            !.events = Append(@, <<"delete", "", e>>)]
       IN TargetEmitW(w2, "effectRemoved", e)

\* an add() that registers no listener on the effect
Unregistered(r) == r

\* effect.on('remove', () => this.remove(effect))
Registered(r) == [r EXCEPT !.listening = TRUE]

\* EffectList.add(effect)
AddW(w, e) ==
  IF w.threw THEN w
  ELSE IF Attached(w.inst[e]) THEN ThrowW(w, "Error")
  ELSE IF w.raw THEN ThrowW(w, "TypeError")
  ELSE LET hit == Scan(w.list, w.inst, w.inst[e].type) IN
       CASE hit.rule = "stack" ->
              [w EXCEPT !.inst[hit.on].stacks = StackedCount(w.inst[hit.on]),
                        !.events = Append(@, <<"effect", "effectStackAdded", hit.on>>),
                        !.rule = "stack"]
         [] hit.rule = "refresh" ->
              [w EXCEPT !.events = Append(@, <<"effect", "effectRefreshed", hit.on>>),
                        !.rule = "refresh"]
         [] hit.rule = "unique" -> [w EXCEPT !.ok = FALSE, !.rule = "unique"]
         [] hit.rule = "insert" ->
              LET w1 == [w EXCEPT !.list = SetAdd(@, e), !.inst[e].owner = w.ent,
                                  !.events = Append(@, <<"effect", "effectAdded", e>>),
                                  !.rule = "insert"]
                  w2 == TargetEmitW(w1, "effectAdded", e)
              IN IF w2.threw THEN w2 ELSE [w2 EXCEPT !.inst[e] = Registered(@)]

\* an instance that add() did not take stays without a target and is dropped
Discard(w, e) ==
  IF w.inst[e].owner = 0 THEN [w EXCEPT !.inst[e] = NoInst] ELSE w

\* EffectList.hydrate(state): every entry is created anew and added
RECURSIVE HydrateW(_, _)
HydrateW(w, entries) ==
  IF w.threw \/ entries = <<>> THEN w
  ELSE LET e == FreshIn(w.inst)
           w1 == AddW([w EXCEPT !.inst[e] = HydratedInst(Head(entries))], e)
       IN HydrateW(Discard(w1, e), Tail(entries))

\* what an operation on entity `ent` about instance `on` leaves behind
Done(op, ent, on, w) ==
  [op |-> op, ent |-> ent, on |-> on, ok |-> w.ok, threw |-> w.threw,
   rule |-> w.rule, events |-> w.events]

Commit(op, ent, on, w) ==
  /\ lists' = [lists EXCEPT ![ent] = w.list]
  /\ inst' = w.inst
  /\ trace' = Done(op, ent, on, w)

\* the list of Spec is not part of OwnSpec
ListIdle ==
  /\ now = 0
  /\ effects = <<>>
  /\ pool = <<>>
  /\ nextId = 0
  /\ run = <<>>
  /\ out = <<>>

\* entity 1 is constructed from stored data; entity 2 was constructed without any and
\* has been hydrated
OwnInit ==
  /\ lists = [ent \in Entities |-> <<>>]
  /\ inst = [e \in Ids |-> NoInst]
  /\ \E stored \in Stored : pend = [ent \in Entities |-> IF ent = 1 THEN stored ELSE <<>>]
  /\ hyd = [ent \in Entities |-> ent # 1]
  /\ attrs = [ent \in Entities |-> [name \in AttrNames |-> NoAttribute]]
  /\ given = [ent \in Entities |-> [name \in AttrNames |-> NotGiven]]
  /\ trace = [op |-> "init", ent |-> 0, on |-> 0, ok |-> TRUE, threw |-> FALSE,
              rule |-> "none", events |-> <<>>]
  /\ ListIdle
  /\ GameIdle
  /\ CallIdle
  /\ NoPlayers
  /\ AreaIdle
  /\ QuestIdle

\* a second passes for every effect
Lapse ==
  /\ inst' = [e \in Ids |-> Later(inst[e])]
  /\ trace' = [op |-> "lapse", ent |-> 0, on |-> 0, ok |-> TRUE, threw |-> FALSE,
               rule |-> "none", events |-> <<>>]
  /\ UNCHANGED <<lists, pend, hyd, attrs, given>>

\* entity.effects.add(new Effect(type))
AddTo(ent, type) ==
  /\ Unborn(inst) # {}
  /\ LET e == FreshIn(inst)
         w0 == World(ent)
         w == AddW([w0 EXCEPT !.inst[e] = NewInst(type)], e)
     IN Commit("add", ent, e, Discard(w, e))
  /\ UNCHANGED <<pend, hyd, attrs, given>>

\* entity.effects.add(effect) of a new effect that is over already when it is added:
\* its isCurrent() is false, its duration having elapsed
AddOver(ent, type) ==
  /\ Unborn(inst) # {}
  /\ Config(type).duration # Infinity
  /\ LET e == FreshIn(inst)
         w0 == World(ent)
         w == AddW([w0 EXCEPT !.inst[e] = OverInst(type)], e)
     IN Commit("add", ent, e, Discard(w, e))
  /\ UNCHANGED <<pend, hyd, attrs, given>>

\* entity.effects.add(effect) of an instance that was added to some list before
AddAgain(ent, e) ==
  /\ inst[e].owner # 0
  /\ Commit("add", ent, e, AddW(World(ent), e))
  /\ UNCHANGED <<pend, hyd, attrs, given>>

\* entity.effects.remove(effect)
RemoveFrom(ent, e) ==
  /\ inst[e].owner # 0
  /\ Commit("remove", ent, e, RemoveW(World(ent), e))
  /\ UNCHANGED <<pend, hyd, attrs, given>>

\* effect.remove(): the 'remove' listener add() registered calls remove(effect)
SignalRemove(e) ==
  /\ inst[e].listening
  /\ Commit("signal", inst[e].owner, e, RemoveW(World(inst[e].owner), e))
  /\ UNCHANGED <<pend, hyd, attrs, given>>

\* EffectList.clear(): this.effects = new Set(), serialized entries included
ClearList(ent) ==
  /\ lists' = [lists EXCEPT ![ent] = <<>>]
  /\ inst' = [e \in Ids |-> IF e \in Range(lists[ent]) THEN Gone(inst[e]) ELSE inst[e]]
  /\ pend' = [pend EXCEPT ![ent] = <<>>]

\* entity.effects.clear()
ClearOn(ent) ==
  /\ ClearList(ent)
  /\ trace' = [op |-> "clear", ent |-> ent, on |-> 0, ok |-> TRUE, threw |-> FALSE,
               rule |-> "none", events |-> <<>>]
  /\ UNCHANGED <<hyd, attrs, given>>

\* entity.effects.size
SizeOf(ent) ==
  /\ Commit("size", ent, 0, ValidateW(World(ent)))
  /\ UNCHANGED <<pend, hyd, attrs, given>>

\* EffectList.getByType(type): [...this.effects].find(effect => effect.config.type === type),
\* the first member of the type in insertion order, or undefined (0); a serialized entry
\* has no config to read
FindW(w, type) ==
  LET of == SelectSeq(w.list, LAMBDA e : w.inst[e].type = type) IN
  IF w.raw THEN ThrowW(w, "TypeError")
  ELSE [w EXCEPT !.ok = of # <<>>,
                 !.events = Append(@, <<"find", type, IF of = <<>> THEN 0 ELSE Head(of)>>)]

\* entity.hasEffectType(type): this.effects.hasEffectType(type), !!this.getByType(type);
\* the record keeps what getByType found
HasEffectTypeOf(ent, type) ==
  /\ Commit("hasEffectType", ent, 0, FindW(World(ent), type))
  /\ UNCHANGED <<pend, hyd, attrs, given>>

\* the effect types callers pause
PausedTypes == {"ward"}

\* effect.pause() on an effect that is in use
PauseOf(e) ==
  /\ inst[e].type \in PausedTypes
  /\ ~inst[e].paused
  /\ inst' = [inst EXCEPT ![e].paused = TRUE]
  /\ trace' = [op |-> "pause", ent |-> inst[e].owner, on |-> e, ok |-> TRUE, threw |-> FALSE,
               rule |-> "none", events |-> <<>>]
  /\ UNCHANGED <<lists, pend, hyd, attrs, given>>

\* entity.emit(event)
EmitOn(ent, event) ==
  /\ Commit("emit", ent, 0, [TargetEmitW(World(ent), event, 0) EXCEPT
                               !.ok = ~World(ent).muted])
  /\ UNCHANGED <<pend, hyd, attrs, given>>

\* the entries EffectList.hydrate walks: what this.effects holds, serialized entries
\* or the effects added since the construction
ListEntries(ent) ==
  IF pend[ent] # <<>> THEN pend[ent]
  ELSE [i \in DOMAIN lists[ent] |-> SerializedEffect(inst[lists[ent][i]])]

\* an entity that hydrates whenever it is asked to
NeverHydrated(flag) == FALSE

\* if (this.__hydrated)
AlreadyHydrated(flag) == flag

\* entity.hydrate(state): once; the attributes are created from __attributes, then the
\* list replaces every entry it holds by a new effect that goes through add()
HydrateEntity(ent) ==
  /\ Cardinality(Unborn(inst)) >= Len(ListEntries(ent))
  /\ IF AlreadyHydrated(hyd[ent])
     THEN /\ trace' = [op |-> "hydrate", ent |-> ent, on |-> 0, ok |-> FALSE,
                       threw |-> FALSE, rule |-> "none", events |-> <<>>]
          /\ UNCHANGED <<lists, inst, pend, hyd, attrs, given>>
     ELSE LET old == Range(lists[ent])
              w0 == [World(ent) EXCEPT !.list = <<>>, !.raw = FALSE,
                       !.inst = [e \in Ids |-> IF e \in old THEN Gone(inst[e]) ELSE inst[e]]]
              w == HydrateW(w0, ListEntries(ent))
              h == HydrateAttributes(attrs[ent], given[ent], AttrOrder)
          IN /\ attrs' = [attrs EXCEPT ![ent] = h.attrs]
             /\ IF h.threw
                THEN /\ trace' = [op |-> "hydrate", ent |-> ent, on |-> 0, ok |-> FALSE,
                                  threw |-> TRUE, rule |-> "none", events |-> <<>>]
                     /\ UNCHANGED <<lists, inst, pend, hyd, given>>
                ELSE /\ Commit("hydrate", ent, 0, w)
                     /\ pend' = [pend EXCEPT ![ent] = <<>>]
                     /\ hyd' = [hyd EXCEPT ![ent] = TRUE]
                     /\ UNCHANGED given

OwnNext ==
  \/ (\E ent \in Entities, type \in OwnTypes : AddTo(ent, type)) /\ UNCHANGED beyondOwn
  \/ (\E ent \in Entities, type \in OwnTypes : AddOver(ent, type)) /\ UNCHANGED beyondOwn
  \/ (\E ent \in Entities, e \in Ids : AddAgain(ent, e)) /\ UNCHANGED beyondOwn
  \/ (\E ent \in Entities, e \in Ids : RemoveFrom(ent, e)) /\ UNCHANGED beyondOwn
  \/ (\E e \in Ids : SignalRemove(e)) /\ UNCHANGED beyondOwn
  \/ (\E ent \in Entities : ClearOn(ent)) /\ UNCHANGED beyondOwn
  \/ (\E ent \in Entities : SizeOf(ent)) /\ UNCHANGED beyondOwn
  \/ (\E ent \in Entities, type \in OwnTypes : HasEffectTypeOf(ent, type))
       /\ UNCHANGED beyondOwn
  \/ (\E ent \in Entities, event \in OwnEvents : EmitOn(ent, event)) /\ UNCHANGED beyondOwn
  \/ (\E e \in Ids : PauseOf(e)) /\ UNCHANGED beyondOwn
  \/ (\E ent \in Entities : HydrateEntity(ent)) /\ UNCHANGED beyondOwn
  \/ Lapse /\ UNCHANGED beyondOwn

OwnSpec == OwnInit /\ [][OwnNext]_vars

(***************************************************************************)
(* One entity with attributes: the attribute API of EffectableEntity, and  *)
(* the entity saved and loaded again.                                      *)
(***************************************************************************)
\* the effect types the entity is given: one for each attribute, and one that is not kept
EntTypes == {"regen", "poison", "ward"}

\* data.attributes of the entity: a bare number and a {base, delta} that was saved; the
\* same with a power that is no attribute spec; the same with a strength that the
\* registry does not know
GivenAttributes ==
  { [name \in AttrNames |-> IF name = "strength" THEN GivenNumber(10) ELSE GivenObject(2, -1)],
    [name \in AttrNames |-> IF name = "strength" THEN GivenNumber(10) ELSE GivenInvalid],
    [name \in AttrNames |-> IF name = "strength" THEN GivenUnknown(10) ELSE GivenObject(2, -1)] }

\* data.effects of the entity: none, or a poison that was saved
GivenEffects == {<<>>, << [type |-> "poison", stacks |-> 1] >>}

\* the attribute the callers change, by which amounts and to which bases
Changed == {"strength"}
DeltaAmounts == {1}
NewBases == {12}

\* the entities that were given attributes
Attributed == {ent \in Entities : \E name \in AttrNames : given[ent][name].kind # "none"}

\* what a call of the attribute API leaves behind
Answer(op, ent, name, val, threw) ==
  [op |-> op, ent |-> ent, name |-> name, val |-> val, threw |-> threw, events |-> <<>>]

\* a call that goes on without looking whether the entity has the attribute
AttributeUnchecked(op, ent, name) ==
  /\ trace' = Answer(op, ent, name, 0, FALSE)
  /\ UNCHANGED <<lists, inst, pend, hyd, attrs, given>>

\* throw new RangeError / new Error: the entity does not have the attribute
NoSuchAttribute(op, ent, name) ==
  /\ trace' = Answer(op, ent, name, 0, TRUE)
  /\ UNCHANGED <<lists, inst, pend, hyd, attrs, given>>

\* entity.effects.serialize(): a list that keeps every member
AllPersist(list, p) == list

\* entity.effects.serialize(): if (!effect.config.persists) continue
Persisting(list, p) == SelectSeq(list, LAMBDA e : Config(p[e].type).persists)

\* the attributes callers add to an entity: AttributeFactory.create(name, base, delta)
AddedAttributes ==
  { [name |-> "strength", base |-> 10, delta |-> 0],
    [name |-> "power", base |-> 2, delta |-> -1] }

\* entity.addAttribute(attr): this.attributes.add(attr), which keeps the attribute under
\* its name, in place of the one the entity had under it
AddAttribute(ent, attr) ==
  /\ attrs' = [attrs EXCEPT ![ent][attr.name] =
                 [has |-> TRUE, base |-> attr.base, delta |-> attr.delta]]
  /\ trace' = Answer("addAttribute", ent, attr.name, 0, FALSE)
  /\ UNCHANGED <<lists, inst, pend, hyd, given>>

\* entity.getMaxAttribute(name)
GetMaxAttribute(ent, name) ==
  IF ~attrs[ent][name].has THEN NoSuchAttribute("getMaxAttribute", ent, name)
  ELSE LET w == ValidateW(World(ent))
           max == MaxAttribute(w.list, w.inst, attrs[ent], name)
       IN
       /\ lists' = [lists EXCEPT ![ent] = w.list]
       /\ inst' = w.inst
       /\ trace' = Answer("getMaxAttribute", ent, name, max.val, w.threw \/ max.threw)
       /\ UNCHANGED <<pend, hyd, attrs, given>>

\* entity.getAttribute(name)
GetAttribute(ent, name) ==
  IF ~attrs[ent][name].has THEN NoSuchAttribute("getAttribute", ent, name)
  ELSE LET w == ValidateW(World(ent))
           max == MaxAttribute(w.list, w.inst, attrs[ent], name)
       IN
       /\ lists' = [lists EXCEPT ![ent] = w.list]
       /\ inst' = w.inst
       /\ trace' = Answer("getAttribute", ent, name,
                          IF max.threw THEN 0
                          ELSE CurrentValue(max.val, attrs[ent][name].delta),
                          w.threw \/ max.threw)
       /\ UNCHANGED <<pend, hyd, attrs, given>>

\* the attribute is changed, then this.emit('attributeUpdate', name, this.getAttribute(name)):
\* what getAttribute throws ends the call before the emit
Update(op, ent, name, changed) ==
  LET a == [attrs[ent] EXCEPT ![name] = changed]
      w == ValidateW(World(ent))
      max == MaxAttribute(w.list, w.inst, a, name)
      val == IF max.threw THEN 0 ELSE CurrentValue(max.val, changed.delta)
      w1 == IF max.threw /\ ~w.threw THEN ThrowW(w, "RangeError")
            ELSE TargetEmitW(w, "attributeUpdate", <<name, val>>)
  IN /\ attrs' = [attrs EXCEPT ![ent] = a]
     /\ lists' = [lists EXCEPT ![ent] = w1.list]
     /\ inst' = w1.inst
     /\ trace' = [Answer(op, ent, name, val, w1.threw) EXCEPT !.events = w1.events]
     /\ UNCHANGED <<pend, hyd, given>>

\* entity.raiseAttribute(name, amount)
RaiseAttribute(ent, name, amount) ==
  IF ~attrs[ent][name].has THEN NoSuchAttribute("raiseAttribute", ent, name)
  ELSE /\ attrs[ent][name].delta + amount <= MaxDelta
       /\ Update("raiseAttribute", ent, name, Raised(attrs[ent][name], amount))

\* entity.lowerAttribute(name, amount)
LowerAttribute(ent, name, amount) ==
  IF ~attrs[ent][name].has THEN NoSuchAttribute("lowerAttribute", ent, name)
  ELSE /\ attrs[ent][name].delta - amount >= 0 - MaxDelta
       /\ Update("lowerAttribute", ent, name, Lowered(attrs[ent][name], amount))

\* entity.setAttributeToMax(name)
SetAttributeToMax(ent, name) ==
  IF ~attrs[ent][name].has THEN NoSuchAttribute("setAttributeToMax", ent, name)
  ELSE Update("setAttributeToMax", ent, name, WithDelta(attrs[ent][name], 0))

\* entity.setAttributeBase(name, newBase)
SetAttributeBase(ent, name, newBase) ==
  IF ~attrs[ent][name].has THEN NoSuchAttribute("setAttributeBase", ent, name)
  ELSE Update("setAttributeBase", ent, name, WithBase(attrs[ent][name], newBase))

\* what is compared of an entity: the (base, delta) of its attributes and the id and
\* state of its effects
Snapshot(a, list, p) ==
  [attributes |-> SerializedAttributes(a),
   effects |-> [i \in DOMAIN list |-> SerializedEffect(p[list[i]])]]

\* data = entity.serialize(); a new entity of the same definition is constructed from
\* the data and hydrated, and looked at
Reload(ent) ==
  /\ hyd[ent]
  /\ LET w == ValidateW(World(ent))
         kept == Persisting(w.list, w.inst)
         data == Snapshot(attrs[ent], kept, w.inst)
         w0 == [World(ent) EXCEPT !.list = <<>>, !.raw = FALSE,
                  !.inst = [e \in Ids |-> NoInst]]
         w1 == HydrateW(w0, data.effects)
         a1 == CreatedAttributes([name \in AttrNames |-> NoAttribute], data.attributes)
     IN /\ lists' = [lists EXCEPT ![ent] = w.list]
        /\ inst' = w.inst
        /\ trace' = [op |-> "reload", ent |-> ent, threw |-> w1.threw,
                     seen |-> Snapshot(a1, w1.list, w1.inst)]
        /\ UNCHANGED <<pend, hyd, attrs, given>>

\* the amounts a damage evaluation is asked about: 2.5 and 4
DamageAmounts == {Frac(2), Num(4)}

\* what a damage evaluation of the entity hands back
Dealt(op, ent, amount, threw) ==
  [op |-> op, ent |-> ent, name |-> "", val |-> 0, threw |-> threw, events |-> <<>>,
   amount |-> amount]

\* entity.evaluateIncomingDamage(damage, currentAmount, attacker):
\* Math.floor(this.effects.evaluateIncomingDamage(...))
EntityIncomingDamage(ent, currentAmount) ==
  LET w == ValidateW(World(ent))
      amount == ClampDamage(FoldIncoming(w.list, w.inst, currentAmount))
  IN /\ lists' = [lists EXCEPT ![ent] = w.list]
     /\ inst' = w.inst
     /\ trace' = Dealt("evaluateIncomingDamage", ent,
                       IF w.threw THEN Num(0) ELSE MathFloor(amount), w.threw)
     /\ UNCHANGED <<pend, hyd, attrs, given>>

\* entity.evaluateOutgoingDamage(damage, currentAmount, target):
\* this.effects.evaluateOutgoingDamage(...) as the list returns it
EntityOutgoingDamage(ent, currentAmount) ==
  LET w == ValidateW(World(ent))
      amount == ClampDamage(FoldOutgoing(w.list, w.inst, currentAmount))
  IN /\ lists' = [lists EXCEPT ![ent] = w.list]
     /\ inst' = w.inst
     /\ trace' = Dealt("evaluateOutgoingDamage", ent,
                       IF w.threw THEN Num(0) ELSE amount, w.threw)
     /\ UNCHANGED <<pend, hyd, attrs, given>>

EntInit ==
  /\ lists = [ent \in Entities |-> <<>>]
  /\ inst = [e \in Ids |-> NoInst]
  /\ \E stored \in GivenEffects :
       pend = [ent \in Entities |-> IF ent = 1 THEN stored ELSE <<>>]
  /\ hyd = [ent \in Entities |-> FALSE]
  /\ attrs = [ent \in Entities |-> [name \in AttrNames |-> NoAttribute]]
  /\ \E g \in GivenAttributes :
       given = [ent \in Entities |-> IF ent = 1 THEN g ELSE [name \in AttrNames |-> NotGiven]]
  /\ trace = Answer("init", 0, "", 0, FALSE)
  /\ ListIdle
  /\ GameIdle
  /\ CallIdle
  /\ NoPlayers
  /\ AreaIdle
  /\ QuestIdle

EntNext ==
  \/ (\E ent \in Attributed, type \in EntTypes : AddTo(ent, type)) /\ UNCHANGED beyondOwn
  \/ (\E ent \in Attributed : HydrateEntity(ent)) /\ UNCHANGED beyondOwn
  \/ (\E ent \in Attributed, name \in AttrNames : GetMaxAttribute(ent, name))
       /\ UNCHANGED beyondOwn
  \/ (\E ent \in Attributed, name \in AttrNames : GetAttribute(ent, name))
       /\ UNCHANGED beyondOwn
  \/ (\E ent \in Attributed, name \in Changed, amount \in DeltaAmounts :
        RaiseAttribute(ent, name, amount)) /\ UNCHANGED beyondOwn
  \/ (\E ent \in Attributed, name \in Changed, amount \in DeltaAmounts :
        LowerAttribute(ent, name, amount)) /\ UNCHANGED beyondOwn
  \/ (\E ent \in Attributed, name \in Changed : SetAttributeToMax(ent, name))
       /\ UNCHANGED beyondOwn
  \/ (\E ent \in Attributed, amount \in DamageAmounts : EntityIncomingDamage(ent, amount))
       /\ UNCHANGED beyondOwn
  \/ (\E ent \in Attributed, amount \in DamageAmounts : EntityOutgoingDamage(ent, amount))
       /\ UNCHANGED beyondOwn
  \/ (\E ent \in Attributed, name \in Changed, newBase \in NewBases :
        SetAttributeBase(ent, name, newBase)) /\ UNCHANGED beyondOwn
  \/ (\E ent \in Attributed : Reload(ent)) /\ UNCHANGED beyondOwn
  \/ (\E ent \in Attributed, attr \in AddedAttributes : AddAttribute(ent, attr))
       /\ UNCHANGED beyondOwn
  \/ Lapse /\ UNCHANGED beyondOwn

EntSpec == EntInit /\ [][EntNext]_vars

(***************************************************************************)
(* GameSpec: the player manager (src/src/PlayerManager.ts), the players it *)
(* holds by lower-cased name, and loadPlayer, whose fetch from the loader  *)
(* is awaited, so that other calls run between its two halves.             *)
(***************************************************************************)
\* the names callers use; "Bob" and "bob" differ in letter case only
Usernames == {"bob", "Bob", "amy"}

\* String.prototype.toLowerCase()
ToLowerCase(name) == IF name = "Bob" THEN "bob" ELSE name

\* keyify(player): player.name.toLowerCase()
Keyify(player) == ToLowerCase(player.name)

\* new Player(data) with data.name = username
NewPlayer(username) == [name |-> username, pruned |-> FALSE]

\* a lookup that lower-cases the name before it asks the Map
HasLowered(map, username) == map[ToLowerCase(username)] # 0

\* this.players.has(username)
Has(map, username) == map[username] # 0

\* getPlayer(name): this.players.get(name.toLowerCase())
PlayerNamed(map, name) ==
  IF ToLowerCase(name) \in DOMAIN map THEN map[ToLowerCase(name)] ELSE 0

\* what a call of the manager hands back: the player returned (0: none, or a promise
\* that is still pending), and whether it asked the loader
Told(op, username, force, player, fetched, threw) ==
  [op |-> op, username |-> username, force |-> force, player |-> player,
   fetched |-> fetched, threw |-> threw, calls |-> <<>>]

\* setLoader(loader)
SetLoader ==
  /\ ~loader
  /\ loader' = TRUE
  /\ said' = Told("setLoader", "", FALSE, 0, FALSE, FALSE)
  /\ UNCHANGED <<players, made, pending, saving>>

\* getPlayer(name)
GetPlayer(name) ==
  /\ said' = Told("getPlayer", name, FALSE, PlayerNamed(players, name), FALSE, FALSE)
  /\ UNCHANGED <<players, made, loader, pending, saving>>

\* loadPlayer(state, account, username, force) up to its await: the held player is
\* returned, or the call throws for want of a loader, or loader.fetch(username) is asked
LoadPlayer(username, force) ==
  IF Has(players, username) /\ ~force
  THEN /\ said' = Told("loadPlayer", username, force, PlayerNamed(players, username),
                       FALSE, FALSE)
       /\ UNCHANGED <<players, made, loader, pending, saving>>
  ELSE IF ~loader
  THEN /\ said' = Told("loadPlayer", username, force, 0, FALSE, TRUE)
       /\ UNCHANGED <<players, made, loader, pending, saving>>
  ELSE /\ BagCardinality(pending) < MaxCalls
       /\ pending' = pending (+) SetToBag({username})
       /\ said' = Told("loadPlayer", username, force, 0, TRUE, FALSE)
       /\ UNCHANGED <<players, made, loader, saving>>

\* loadPlayer after its await: data.name = username; new Player(data); addPlayer(player)
Loaded(username) ==
  /\ BagIn(username, pending)
  /\ Len(made) < MaxPlayers
  /\ LET player == Len(made) + 1 IN
     /\ made' = Append(made, NewPlayer(username))
     /\ players' = [players EXCEPT ![Keyify(NewPlayer(username))] = player]
     /\ said' = Told("loaded", username, FALSE, player, TRUE, FALSE)
  /\ pending' = pending (-) SetToBag({username})
  /\ UNCHANGED <<loader, saving>>

\* addPlayer(player): this.players.set(this.keyify(player), player), whoever the player is:
\* one that is held already, one that was removed, or one that another replaced under its key
AddPlayer(player) ==
  /\ player \in DOMAIN made
  /\ players' = [players EXCEPT ![Keyify(made[player])] = player]
  /\ said' = Told("addPlayer", made[player].name, FALSE, player, FALSE, FALSE)
  /\ UNCHANGED <<made, loader, pending, saving>>

\* player.room as removePlayer finds it: nothing, the name of the room the player was
\* saved in (until Player.hydrate looks it up), or a Room
PlayerRooms == {"none", "name", "room"}

\* if (player.room) { player.room.removePlayer(player) } throws TypeError on a room that is
\* still a name: a string has no removePlayer
NotARoom(room) == room = "name"

\* removePlayer(player), the manager's part, given player.room: the TypeError of a room
\* that is a name ends the call before player.__pruned = true and
\* this.players.delete(this.keyify(player)), which deletes the key whoever is held under it.
\* Nothing asks whether the player is held or was removed before.
RemovePlayer(player, room) ==
  /\ player \in DOMAIN made
  /\ IF NotARoom(room)
     THEN /\ said' = Told("removePlayer", made[player].name, FALSE, player, FALSE, TRUE)
          /\ UNCHANGED <<players, made>>
     ELSE /\ made' = [made EXCEPT ![player].pruned = TRUE]
          /\ players' = [players EXCEPT ![Keyify(made[player])] = 0]
          /\ said' = Told("removePlayer", made[player].name, FALSE, player, FALSE, FALSE)
  /\ UNCHANGED <<loader, pending, saving>>

(***************************************************************************)
(* Channel.send (src/dist/cjs/Channel.js).  A message is its sequence of   *)
(* words; the audience classes are not among the sources and follow their  *)
(* description: the world audience is every held player but the sender,    *)
(* the private audience the player the first word names (and the message   *)
(* loses that word), the party audience the sender's party.                *)
(***************************************************************************)
Audiences == {"world", "private", "party"}
Messages == {<<>>, <<"hi">>, <<"amy", "hi">>}

\* sender.party is set or not, which only the party audience looks at
Parties(audience) == IF audience = "party" THEN BOOLEAN ELSE {FALSE}

\* the players the manager holds
Held(map) == {map[name] : name \in Usernames} \ {0}

\* audience.getBroadcastTargets() after audience.configure({state, sender, message})
BroadcastTargets(audience, map, sender, party, message) ==
  CASE audience = "world"   -> Held(map) \ {sender}
    [] audience = "private" -> IF message = <<>> THEN {}
                               ELSE {PlayerNamed(map, Head(message))} \ {0}
    [] audience = "party"   -> IF party THEN Held(map) \ {sender} ELSE {}

\* audience.alterMessage(message)
AlterMessage(audience, message) ==
  IF audience = "private" /\ message # <<>> THEN Tail(message) ELSE message

\* Broadcast.sayAt(sender, this.formatter.sender(...))
SayAt(sender, message) == <<"sayAt", sender, message>>

\* Broadcast.sayAtFormatted(this.audience, message, ...)
SayAtFormatted(audience, message) == <<"sayAtFormatted", audience, message>>

\* sender.emit('channelSend', this, rawMessage)
EmitSend(sender, message) == <<"channelSend", sender, message>>

\* the Broadcast calls of send() before the events
Broadcasts(eventOnly, audience, sender, message) ==
  IF ~eventOnly
  THEN <<SayAt(sender, message)>>
       \o (IF message = <<>> THEN <<>>
           ELSE <<SayAt(sender, message), SayAtFormatted(audience, message)>>)
  ELSE <<SayAt(sender, message), SayAtFormatted(audience, message)>>

\* what send() did: whether it threw, its calls in order, and the targets that were sent
\* channelReceive
Sent(eventOnly, audience, sender, message, threw, calls, received) ==
  [op |-> "send", username |-> "", force |-> FALSE, player |-> sender, fetched |-> FALSE,
   threw |-> threw, calls |-> calls, eventOnly |-> eventOnly, audience |-> audience,
   message |-> message, received |-> received]

\* channel.send(state, sender, message), for a channel of the given audience and eventOnly
Send(eventOnly, audience, sender, party, message) ==
  /\ sender \in DOMAIN made
  /\ LET targets == BroadcastTargets(audience, players, sender, party, message)
         altered == AlterMessage(audience, message)
         calls == Broadcasts(eventOnly, audience, sender, altered)
     IN said' =
          IF message = <<>> \/ (audience = "party" /\ ~party)
          THEN Sent(eventOnly, audience, sender, message, TRUE, <<>>, {})
          ELSE IF ~eventOnly /\ altered = <<>>
          THEN Sent(eventOnly, audience, sender, message, TRUE, calls, {})
          ELSE Sent(eventOnly, audience, sender, message, FALSE,
                    Append(calls, EmitSend(sender, altered)), targets)
  /\ UNCHANGED <<players, made, loader, pending, saving>>

\* new PlayerManager()
GameInit ==
  /\ players = [name \in Usernames |-> 0]
  /\ made = <<>>
  /\ loader = FALSE
  /\ pending = EmptyBag
  /\ saving = EmptyBag
  /\ said = Told("init", "", FALSE, 0, FALSE, FALSE)
  /\ ListIdle
  /\ OwnIdle
  /\ CallIdle
  /\ PlayerIdle
  /\ AreaIdle
  /\ QuestIdle

GameNext ==
  \/ SetLoader /\ UNCHANGED beyondGame
  \/ (\E name \in Usernames : GetPlayer(name)) /\ UNCHANGED beyondGame
  \/ (\E username \in Usernames, force \in BOOLEAN : LoadPlayer(username, force))
       /\ UNCHANGED beyondGame
  \/ (\E username \in Usernames : Loaded(username)) /\ UNCHANGED beyondGame
  \/ (\E player \in 1..MaxPlayers : AddPlayer(player)) /\ UNCHANGED beyondGame
  \/ (\E player \in 1..MaxPlayers, room \in PlayerRooms : RemovePlayer(player, room))
       /\ UNCHANGED beyondGame

GameSpec == GameInit /\ [][GameNext]_vars

\* LoadSpec: a manager that is only asked for players, never with force
LoadNext ==
  \/ SetLoader /\ UNCHANGED beyondGame
  \/ (\E name \in Usernames : GetPlayer(name)) /\ UNCHANGED beyondGame
  \/ (\E username \in Usernames : LoadPlayer(username, FALSE)) /\ UNCHANGED beyondGame
  \/ (\E username \in Usernames : Loaded(username)) /\ UNCHANGED beyondGame

LoadSpec == GameInit /\ [][LoadNext]_vars

\* ChanSpec: channels over a manager that has loaded bob and amy, who leave in time
ChanInit ==
  /\ made = <<NewPlayer("bob"), NewPlayer("amy")>>
  /\ players = [name \in Usernames |-> CASE name = "bob" -> 1 [] name = "amy" -> 2 [] OTHER -> 0]
  /\ loader = TRUE
  /\ pending = EmptyBag
  /\ saving = EmptyBag
  /\ said = Told("init", "", FALSE, 0, FALSE, FALSE)
  /\ ListIdle
  /\ OwnIdle
  /\ CallIdle
  /\ PlayerIdle
  /\ AreaIdle
  /\ QuestIdle

ChanNext ==
  \/ (\E eventOnly \in BOOLEAN, audience \in Audiences, sender \in 1..MaxPlayers,
         message \in Messages :
        \E party \in Parties(audience) : Send(eventOnly, audience, sender, party, message))
       /\ UNCHANGED beyondGame
  \/ (\E player \in 1..MaxPlayers : AddPlayer(player)) /\ UNCHANGED beyondGame
  \/ (\E player \in 1..MaxPlayers, room \in PlayerRooms : RemovePlayer(player, room))
       /\ UNCHANGED beyondGame

ChanSpec == ChanInit /\ [][ChanNext]_vars

(***************************************************************************)
(* PlayerSpec: entity 1 is a Player (src/dist/cjs/Player.js) constructed   *)
(* from stored data, whose emit is silent until it is hydrated and after   *)
(* it is pruned.  The manager holds it as its player 1 under the name bob, *)
(* ticks it, saves it and removes it; moveTo puts it in a room.            *)
(***************************************************************************)
Players == {1}
PlayerTypes == {"stun", "bleed"}
PlayerEvents == {"damaged", "effectRemoved"}

\* what removePlayer leaves for the record of the list: clear() went through, and the
\* TypeError of a room that is a name came after it
Pruning(ent) ==
  IF NotARoom(plr[ent].room)
  THEN [op |-> "clear", ent |-> ent, on |-> 0, ok |-> FALSE, threw |-> TRUE,
        rule |-> "none", events |-> << <<"throw", "TypeError", 0>> >>]
  ELSE [op |-> "clear", ent |-> ent, on |-> 0, ok |-> TRUE, threw |-> FALSE,
        rule |-> "none", events |-> <<>>]

\* PlayerManager.removePlayer(player) of a player, pruned already or not:
\* player.effects.clear(); if (player.room) { player.room.removePlayer(player) }, at which
\* the call ends with a TypeError when the room is still a name; player.__pruned = true;
\* this.players.delete(this.keyify(player))
Prune(ent) ==
  /\ plr[ent].is
  /\ RemovePlayer(ent, plr[ent].room)
  /\ ClearList(ent)
  /\ trace' = Pruning(ent)
  /\ plr' = [plr EXCEPT ![ent].pruned = @ \/ ~NotARoom(plr[ent].room)]
  /\ UNCHANGED <<hyd, attrs, given>>

\* the equipment after Player.hydrate: the stored definitions become a Map of the items
\* created from them (ItemFactory is taken to create each one), anything else is replaced
\* by a new Map
HydratedEquipment(equipment) ==
  IF ~equipment.map THEN [map |-> TRUE, slots |-> equipment.slots] ELSE NewMap

\* typeof this.room === 'string': the room is looked up and becomes this.room
HydratedRoom(room) == IF NotARoom(room) THEN "room" ELSE room

\* player.moveTo(nextRoom): this.room.emit('playerLeave', ...) of a room that is still a
\* name throws TypeError before anything is changed; else this.room = nextRoom, the rooms
\* are told, and enterRoom is emitted on the player
MoveTo(ent, nextRoom) ==
  /\ plr[ent].is
  /\ IF NotARoom(plr[ent].room)
     THEN /\ Commit("moveTo", ent, 0, ThrowW(World(ent), "TypeError"))
          /\ plr' = plr
     ELSE /\ Commit("moveTo", ent, 0, [TargetEmitW(World(ent), "enterRoom", 0) EXCEPT
                                         !.ok = ~World(ent).muted])
          /\ plr' = [plr EXCEPT ![ent].room = nextRoom]
  /\ UNCHANGED <<pend, hyd, attrs, given>>

\* player.hydrate(state): super.hydrate(state) (the hydrate of the entity; what it throws
\* ends the call); then the equipment; then the room the player was saved in, to which
\* moveTo(room) moves the player, emitting enterRoom on it.  The quest tracker and the
\* inventory are not among the sources and not followed.
HydratePlayer(ent) ==
  /\ Cardinality(Unborn(inst)) >= Len(ListEntries(ent))
  /\ LET again == AlreadyHydrated(hyd[ent])
         old == Range(lists[ent])
         w0 == [World(ent) EXCEPT !.list = <<>>, !.raw = FALSE,
                  !.inst = [e \in Ids |-> IF e \in old THEN Gone(inst[e]) ELSE inst[e]]]
         h == HydrateAttributes(attrs[ent], given[ent], AttrOrder)
         w1 == IF again THEN [World(ent) EXCEPT !.ok = FALSE, !.raw = FALSE]
               ELSE HydrateW(w0, ListEntries(ent))
         w2 == IF plr[ent].room = "name"
               THEN TargetEmitW([w1 EXCEPT !.muted = plr[ent].pruned], "enterRoom", 0)
               ELSE w1
     IN IF ~again /\ h.threw
        THEN /\ attrs' = [attrs EXCEPT ![ent] = h.attrs]
             /\ trace' = [op |-> "hydrate", ent |-> ent, on |-> 0, ok |-> FALSE,
                          threw |-> TRUE, rule |-> "none", events |-> <<>>]
             /\ UNCHANGED <<lists, inst, pend, hyd, given, plr>>
        ELSE /\ attrs' = [attrs EXCEPT ![ent] = IF again THEN @ ELSE h.attrs]
             /\ Commit("hydrate", ent, 0, w2)
             /\ pend' = [pend EXCEPT ![ent] = IF again THEN @ ELSE <<>>]
             /\ hyd' = [hyd EXCEPT ![ent] = TRUE]
             /\ plr' = [plr EXCEPT ![ent].equipment = HydratedEquipment(@),
                                   ![ent].room = HydratedRoom(@)]
             /\ UNCHANGED given

\* tickAll(): player.emit("updateTick") for every entry of this.players, of which
\* PlayerSpec has one at most
TickAll ==
  /\ IF Held(players) = {}
     THEN /\ trace' = [op |-> "tickAll", ent |-> 0, on |-> 0, ok |-> TRUE, threw |-> FALSE,
                       rule |-> "none", events |-> <<>>]
          /\ UNCHANGED <<lists, inst, pend, hyd, attrs, given>>
     ELSE \E player \in Held(players) : EmitOn(player, "updateTick")
  /\ said' = Told("tickAll", "", FALSE, 0, FALSE, FALSE)
  /\ UNCHANGED <<players, made, loader, pending, saving>>

\* save(player) up to its await: it throws for want of a loader; else player.serialize()
\* is evaluated, in which EffectList.serialize() sweeps the list (and throws TypeError on
\* serialized entries, which rejects the promise), and loader.update(player.name, data) is
\* asked.  Nothing asks whether a save of the player is awaited already.
Save(player) ==
  /\ player \in DOMAIN made
  /\ IF ~loader
     THEN /\ said' = Told("save", made[player].name, FALSE, player, FALSE, TRUE)
          /\ UNCHANGED <<saving, lists, inst, trace>>
     ELSE LET w == ValidateW(World(player)) IN
          /\ w.threw \/ BagCardinality(saving) < MaxCalls
          /\ Commit("serialize", player, 0, w)
          /\ said' = Told("save", made[player].name, FALSE, player, ~w.threw, w.threw)
          /\ saving' = IF w.threw THEN saving ELSE saving (+) SetToBag({player})
  /\ UNCHANGED <<pend, hyd, attrs, given>>
  /\ UNCHANGED <<players, made, loader, pending>>

\* save(player) after its await: player.emit("saved")
Saved(player) ==
  /\ BagIn(player, saving)
  /\ saving' = saving (-) SetToBag({player})
  /\ EmitOn(player, "saved")
  /\ said' = Told("saved", made[player].name, FALSE, player, FALSE, FALSE)
  /\ UNCHANGED <<players, made, loader, pending>>

PlayerInit ==
  /\ lists = [ent \in Entities |-> <<>>]
  /\ inst = [e \in Ids |-> NoInst]
  /\ \E stored \in Stored : pend = [ent \in Entities |-> IF ent = 1 THEN stored ELSE <<>>]
  /\ hyd = [ent \in Entities |-> FALSE]
  /\ attrs = [ent \in Entities |-> [name \in AttrNames |-> NoAttribute]]
  /\ given = [ent \in Entities |-> [name \in AttrNames |-> NotGiven]]
  /\ trace = [op |-> "init", ent |-> 0, on |-> 0, ok |-> TRUE, threw |-> FALSE,
              rule |-> "none", events |-> <<>>]
  /\ \E equipment \in {StoredEquipment, NewMap}, room \in {"name", "none"} :
       plr = [ent \in Entities |->
                IF ent \in Players THEN [APlayer EXCEPT !.equipment = equipment, !.room = room]
                ELSE NotPlayer]
  /\ made = <<NewPlayer("bob")>>
  /\ players = [name \in Usernames |-> IF name = "bob" THEN 1 ELSE 0]
  /\ loader = TRUE
  /\ pending = EmptyBag
  /\ saving = EmptyBag
  /\ said = Told("init", "", FALSE, 0, FALSE, FALSE)
  /\ ListIdle
  /\ CallIdle
  /\ AreaIdle
  /\ QuestIdle

PlayerNext ==
  \/ (\E ent \in Players, type \in PlayerTypes : AddTo(ent, type))
       /\ UNCHANGED <<plr, beyondPlayer>>
  \/ (\E ent \in Players, e \in Ids : RemoveFrom(ent, e)) /\ UNCHANGED <<plr, beyondPlayer>>
  \/ (\E ent \in Players, event \in PlayerEvents : EmitOn(ent, event))
       /\ UNCHANGED <<plr, beyondPlayer>>
  \/ (\E ent \in Players : HydratePlayer(ent)) /\ UNCHANGED beyondPlayer
  \/ (\E ent \in Players : Prune(ent)) /\ UNCHANGED beyondBoth
  \/ (\E player \in Players : AddPlayer(player)) /\ UNCHANGED <<ownVars, plr, beyondBoth>>
  \/ TickAll /\ UNCHANGED <<plr, beyondBoth>>
  \/ (\E player \in Players : Save(player)) /\ UNCHANGED <<plr, beyondBoth>>
  \/ (\E ent \in Players, nextRoom \in {"room"} : MoveTo(ent, nextRoom))
       /\ UNCHANGED beyondPlayer
  \/ (\E player \in Players : Saved(player)) /\ UNCHANGED <<plr, beyondBoth>>
  \/ Lapse /\ UNCHANGED <<plr, beyondPlayer>>

PlayerSpec == PlayerInit /\ [][PlayerNext]_vars

(***************************************************************************)
(* AreaSpec: an area (src/src/Area.ts), the rooms it holds by id and the   *)
(* floors of its map, on which a room with coordinates is placed.          *)
(* AreaFloor is not among the sources: a floor keeps the room put at       *)
(* (x, y) and hands it back; whether it replaces or refuses a room put at  *)
(* coordinates that are taken is left open.                                *)
(***************************************************************************)
RoomIds == {"hall", "cave"}
Xys == {<<0, 0>>}
Zs == {0, 1}
Coordinates == {<<xy[1], xy[2], z>> : xy \in Xys, z \in Zs}

\* room.coordinates of a room that has none
NoCoordinates == <<>>

\* the Room objects the area is given, and what a lookup that finds nothing returns
Rooms == [id : RoomIds, coordinates : Coordinates \cup {NoCoordinates}]
NoRoom == [id |-> "", coordinates |-> NoCoordinates]

\* this.map.get(z) of a floor that was never made
NoFloor == [made |-> FALSE, at |-> [xy \in Xys |-> NoRoom]]

\* AreaFloor.getRoom(x, y)
FloorGetRoom(floor, x, y) == floor.at[<<x, y>>]

\* AreaFloor.addRoom(x, y, room)
FloorAddRoom(floor, x, y, room) == [floor EXCEPT !.at[<<x, y>>] = room]

\* getRoomAtCoordinates(x, y, z): floor && floor.getRoom(x, y)
RoomAt(map, x, y, z) == IF map[z].made THEN FloorGetRoom(map[z], x, y) ELSE NoRoom

\* what addRoomToMap(room) makes of the map: it throws for a room without coordinates;
\* else the floor of z is made if there is none and the room put at (x, y).  `refused`: the
\* floor throws when the coordinates are taken, and it is there already when they are
MapWith(map, room, refused) ==
  IF room.coordinates = NoCoordinates THEN [threw |-> TRUE, map |-> map]
  ELSE LET x == room.coordinates[1]
           y == room.coordinates[2]
           z == room.coordinates[3]
           map1 == IF map[z].made THEN map
                   ELSE [map EXCEPT ![z] = [NoFloor EXCEPT !.made = TRUE]]
       IN IF refused /\ RoomAt(map, x, y, z) # NoRoom THEN [threw |-> TRUE, map |-> map]
          ELSE [threw |-> FALSE, map |-> [map1 EXCEPT ![z] = FloorAddRoom(@, x, y, room)]]

\* what a call of the area did
Shown(op, room, threw, events) == [op |-> op, room |-> room, threw |-> threw, events |-> events]

\* addRoomToMap(room), called by itself: the rooms map is not touched and nothing is emitted
AddRoomToMap(room, refused) ==
  LET put == MapWith(floors, room, refused)
  IN /\ floors' = put.map
     /\ found' = Shown("addRoomToMap", room, put.threw, <<>>)
     /\ UNCHANGED rooms

\* addRoom(room): this.rooms.set(room.id, room); addRoomToMap(room) if the room has
\* coordinates, and what that throws ends the call before roomAdded is emitted
AddRoom(room, refused) ==
  LET put == IF room.coordinates # NoCoordinates THEN MapWith(floors, room, refused)
             ELSE [threw |-> FALSE, map |-> floors]
  IN /\ rooms' = [rooms EXCEPT ![room.id] = room]
     /\ floors' = put.map
     /\ found' = Shown("addRoom", room, put.threw,
                       IF put.threw THEN <<>> ELSE <<"roomAdded">>)

\* removeRoom(room): this.rooms.delete(room.id); this.emit("roomRemoved", room)
RemoveRoom(room) ==
  /\ rooms' = [rooms EXCEPT ![room.id] = NoRoom]
  /\ found' = Shown("removeRoom", room, FALSE, <<"roomRemoved">>)
  /\ UNCHANGED floors

\* getRoomById(id)
GetRoomById(id) ==
  /\ found' = Shown("getRoomById", rooms[id], FALSE, <<>>)
  /\ UNCHANGED <<rooms, floors>>

\* getRoomAtCoordinates(x, y, z)
GetRoomAtCoordinates(x, y, z) ==
  /\ found' = Shown("getRoomAtCoordinates", RoomAt(floors, x, y, z), FALSE, <<>>)
  /\ UNCHANGED <<rooms, floors>>

\* new Area(bundle, name, manifest)
AreaInit ==
  /\ rooms = [id \in RoomIds |-> NoRoom]
  /\ floors = [z \in Zs |-> NoFloor]
  /\ found = Shown("init", NoRoom, FALSE, <<>>)
  /\ ListIdle
  /\ OwnIdle
  /\ GameIdle
  /\ CallIdle
  /\ PlayerIdle
  /\ QuestIdle

AreaNext ==
  \/ (\E room \in Rooms, refused \in BOOLEAN : AddRoom(room, refused)) /\ UNCHANGED beyondArea
  \/ (\E room \in Rooms, refused \in BOOLEAN : AddRoomToMap(room, refused))
       /\ UNCHANGED beyondArea
  \/ (\E room \in Rooms : RemoveRoom(room)) /\ UNCHANGED beyondArea
  \/ (\E id \in RoomIds : GetRoomById(id)) /\ UNCHANGED beyondArea
  \/ (\E c \in Coordinates : GetRoomAtCoordinates(c[1], c[2], c[3])) /\ UNCHANGED beyondArea

AreaSpec == AreaInit /\ [][AreaNext]_vars

\* RoomsSpec: an area whose map is only reached through addRoom
RoomsNext ==
  \/ (\E room \in Rooms, refused \in BOOLEAN : AddRoom(room, refused)) /\ UNCHANGED beyondArea
  \/ (\E room \in Rooms : RemoveRoom(room)) /\ UNCHANGED beyondArea
  \/ (\E id \in RoomIds : GetRoomById(id)) /\ UNCHANGED beyondArea
  \/ (\E c \in Coordinates : GetRoomAtCoordinates(c[1], c[2], c[3])) /\ UNCHANGED beyondArea

RoomsSpec == AreaInit /\ [][RoomsNext]_vars

(***************************************************************************)
(* QuestSpec: a quest (class Quest of src/src/PartyAudience.ts) and its    *)
(* goals.  QuestGoal is not among the sources: a goal reports a percent,   *)
(* emits 'progress' when it changes, and is a plain emitter otherwise.     *)
(***************************************************************************)
Percents == {0, 50, 99, 100}

\* Math.round(num / den) of a non-negative num and a positive den: halves go up
MathRound(num, den) == (2 * num + den) \div (2 * den)

RECURSIVE SumOf(_)
SumOf(percents) == IF percents = <<>> THEN 0 ELSE Head(percents) + SumOf(Tail(percents))

\* getProgress().percent: Math.round(overallPercent / this.goals.length), NaN without goals
GetProgress(q) ==
  IF q.goals = <<>> THEN NaN ELSE Num(MathRound(SumOf(q.goals), Len(q.goals)))

\* progress.percent >= 100
AtLeast(x, n) == ~x.nan /\ x.v >= n

\* a quest that proxies every event to its goals
QuestEmitAll(q, event) ==
  << <<"listeners", event, 0>> >> \o [i \in DOMAIN q.goals |-> <<"goal", event, i>>]

\* Quest.emit(event): super.emit, then goal.emit for every goal unless the event is progress
QuestEmit(q, event) ==
  << <<"listeners", event, 0>> >>
    \o (IF event = "progress" THEN <<>> ELSE [i \in DOMAIN q.goals |-> <<"goal", event, i>>])

\* complete(): this.emit("complete"), then goal.complete() for every goal
Complete(q) ==
  QuestEmit(q, "complete") \o [i \in DOMAIN q.goals |-> <<"goal.complete", "", i>>]

\* onProgressUpdated()
OnProgressUpdated(q) ==
  IF AtLeast(GetProgress(q), 100)
  THEN IF q.autoComplete THEN Complete(q) ELSE QuestEmit(q, "turn-in-ready")
  ELSE QuestEmit(q, "progress")

\* addGoal(goal): this.goals.push(goal); goal.on("progress", () => this.onProgressUpdated())
AddGoal(percent) ==
  /\ Len(quest.goals) < MaxGoals
  /\ quest' = [quest EXCEPT !.goals = Append(@, percent)]
  /\ heard' = [op |-> "addGoal", percent |-> Num(percent), calls |-> <<>>]

\* the progress of goal i changes and the goal emits 'progress': the listener of addGoal
\* calls onProgressUpdated()
GoalProgress(i, percent) ==
  /\ i \in DOMAIN quest.goals
  /\ quest' = [quest EXCEPT !.goals[i] = percent]
  /\ heard' = [op |-> "onProgressUpdated", percent |-> GetProgress(quest'),
               calls |-> OnProgressUpdated(quest')]

\* quest.onProgressUpdated(), called from outside
ProgressUpdated ==
  /\ heard' = [op |-> "onProgressUpdated", percent |-> GetProgress(quest),
               calls |-> OnProgressUpdated(quest)]
  /\ UNCHANGED quest

\* new Quest(GameState, id, config, player)
QuestInit ==
  /\ \E autoComplete \in BOOLEAN : quest = [autoComplete |-> autoComplete, goals |-> <<>>]
  /\ heard = [op |-> "init", percent |-> NaN, calls |-> <<>>]
  /\ ListIdle
  /\ OwnIdle
  /\ GameIdle
  /\ CallIdle
  /\ PlayerIdle
  /\ AreaIdle

QuestNext ==
  \/ (\E percent \in Percents : AddGoal(percent)) /\ UNCHANGED beyondQuest
  \/ (\E i \in 1..MaxGoals, percent \in Percents : GoalProgress(i, percent))
       /\ UNCHANGED beyondQuest
  \/ ProgressUpdated /\ UNCHANGED beyondQuest

QuestSpec == QuestInit /\ [][QuestNext]_vars

(***************************************************************************)
(* CallSpec: one getMaxAttribute call of an entity that has every          *)
(* attribute, followed frame by frame over attribute definitions whose     *)
(* formulas may require each other.  The JavaScript engine throws a        *)
(* RangeError when the call stack is MaxDepth frames deep.                 *)
(***************************************************************************)
\* formula.requires of an attribute definition: up to MaxRequires attribute names (none:
\* the attribute has no formula)
RequireLists == UNION {[1..n -> AttrNames] : n \in 0..MaxRequires}

\* the attribute definitions: every way the attributes can require each other, the
\* definitions of EntSpec among them
Definitions == [AttrNames -> RequireLists]

\* the frame of a getMaxAttribute(name) call: `at` of its requirements have been asked
Frame(name) == [name |-> name, at |-> 0]

\* how the outermost call stands
Outcome(of, how) == [of |-> of, how |-> how]

\* a map() that skips a requirement whose call is already open
AskedUnlessOpen(frames, dep) ==
  LET top == Len(frames)
      moved == [frames EXCEPT ![top].at = @ + 1]
  IN IF \E i \in DOMAIN frames : frames[i].name = dep THEN moved
     ELSE Append(moved, Frame(dep))

\* formula.requires.map((reqAttr) => this.getMaxAttribute(reqAttr)): the next requirement
\* is asked, whatever calls are open
Asked(frames, dep) ==
  LET top == Len(frames) IN
  Append([frames EXCEPT ![top].at = @ + 1], Frame(dep))

\* entity.getMaxAttribute(name) is called
CallMax(name) ==
  /\ stack = <<>>
  /\ stack' = <<Frame(name)>>
  /\ result' = Outcome(name, "running")
  /\ UNCHANGED requires

\* the innermost call asks for its next requirement
Descend ==
  /\ stack # <<>>
  /\ LET top == stack[Len(stack)] IN
     /\ top.at < Len(requires[top.name])
     /\ Len(stack) < MaxDepth
     /\ stack' = Asked(stack, requires[top.name][top.at + 1])
  /\ UNCHANGED <<requires, result>>

\* the innermost call has no formula, or has all its requirements, and returns
Return ==
  /\ stack # <<>>
  /\ LET top == stack[Len(stack)] IN top.at = Len(requires[top.name])
  /\ stack' = SubSeq(stack, 1, Len(stack) - 1)
  /\ result' = IF Len(stack) = 1 THEN Outcome(result.of, "returned") ELSE result
  /\ UNCHANGED requires

\* the call stack is full: RangeError: Maximum call stack size exceeded, which no frame
\* catches
Overflow ==
  /\ stack # <<>>
  /\ LET top == stack[Len(stack)] IN top.at < Len(requires[top.name])
  /\ Len(stack) = MaxDepth
  /\ stack' = <<>>
  /\ result' = Outcome(result.of, "overflow")
  /\ UNCHANGED requires

CallInit ==
  /\ requires \in Definitions
  /\ stack = <<>>
  /\ result = Outcome("", "idle")
  /\ ListIdle
  /\ OwnIdle
  /\ GameIdle
  /\ PlayerIdle
  /\ AreaIdle
  /\ QuestIdle

\* a call runs to its end before the next one is made
Running == Descend \/ Return \/ Overflow

CallNext ==
  \/ (\E name \in AttrNames : CallMax(name)) /\ UNCHANGED beyondCall
  \/ Descend /\ UNCHANGED beyondCall
  \/ Return /\ UNCHANGED beyondCall
  \/ Overflow /\ UNCHANGED beyondCall

CallSpec == CallInit /\ [][CallNext]_vars

\* the call is synchronous: once made it runs on until it returns or throws
CallLive == CallSpec /\ WF_vars(Running /\ UNCHANGED beyondCall)

(***************************************************************************)
(* Helpers of the properties.                                              *)
(***************************************************************************)
\* the members of a type, and those of them that are still current
OfType(type) == {e \in Range(effects) : pool[e].type = type}
ActiveOfType(type) == {e \in OfType(type) : IsCurrent(pool[e], now)}

\* the step is an add() of a detached effect of `type`
AddedStep(type) == out'.op = "add" /\ ~out'.threw /\ out'.type = type

\* the step is an emit('updateTick') that delivered the event to effect e
TickDelivered(e) ==
  /\ out'.op = "emit"
  /\ out'.event = "updateTick"
  /\ \E i \in DOMAIN out'.fired : out'.fired[i] = <<e, "updateTick">>

ReadOps == {"size", "entries", "evaluateAttribute", "evaluateProperty",
            "evaluateIncomingDamage", "evaluateOutgoingDamage", "emit", "serialize"}

(***************************************************************************)
(* C1: for a type with maxStacks = N >= 1, N+1 add() calls in a row with   *)
(* fresh effects of that type, on a list that was empty, leave exactly one *)
(* member of the type, whose stacks equal N; no member's stacks exceed its *)
(* cap on the way.                                                         *)
(***************************************************************************)
C1_StacksReachCap ==
  \A type \in Types :
    LET n == Config(type).maxStacks IN
    n >= 1 =>
      /\ \A e \in OfType(type) : pool[e].stacks <= n
      /\ (run.type = type /\ run.n = n + 1) =>
           /\ Cardinality(OfType(type)) = 1
           /\ \A e \in OfType(type) : pool[e].stacks = n

(***************************************************************************)
(* C2, as stated: for a type with unique = true, add() of another instance *)
(* while one of the type is active returns false and leaves the list as it *)
(* was.                                                                    *)
(***************************************************************************)
C2_UniqueRejects ==
  [][\A type \in Types :
       (AddedStep(type) /\ Config(type).unique /\ ActiveOfType(type) # {})
         => (~out'.ok /\ effects' = effects)]_vars

(***************************************************************************)
(* C2, amended: for a type with unique = true that neither stacks          *)
(* (maxStacks = 0) nor refreshes, add() of another instance while one of   *)
(* the type is active returns false, signals nothing, and leaves the list  *)
(* and its members as they were.                                           *)
(***************************************************************************)
C2_UniqueOnlyRejects ==
  [][\A type \in Types :
       (/\ AddedStep(type)
        /\ Config(type).unique
        /\ Config(type).maxStacks = 0
        /\ ~Config(type).refreshes
        /\ ActiveOfType(type) # {})
         => (/\ ~out'.ok
             /\ out'.fired = <<>>
             /\ effects' = effects
             /\ pool' = pool)]_vars

\* a second stun was refused while the first is still active
C2_Witness ==
  /\ out.op = "add"
  /\ out.type = "stun"
  /\ out.rule = "unique"
  /\ ~out.ok
  /\ out.on \in ActiveOfType("stun")
  /\ Len(effects) = 1

(***************************************************************************)
(* C3: for a type with refreshes = true, add() of a duplicate while one of *)
(* the type is active resets the existing effect's elapsed duration (it    *)
(* expires a full duration from now), signals effectRefreshed on it,       *)
(* returns true and leaves the list as it was.                             *)
(***************************************************************************)
C3_RefreshResets ==
  [][\A type \in Types :
       (AddedStep(type) /\ Config(type).refreshes /\ ActiveOfType(type) # {})
         => (/\ out'.ok
             /\ effects' = effects
             /\ out'.on \in ActiveOfType(type)
             /\ out'.fired = << <<out'.on, "effectRefreshed">> >>
             /\ pool'[out'.on].expiresAt = ExpiresAt(type, now))]_vars

(***************************************************************************)
(* C4: add() takes the stacking rule on an existing effect only when its   *)
(* maxStacks > 0 and its stacks are below maxStacks; on an effect at its   *)
(* cap no effectStackAdded is signalled and the refresh rule, then the     *)
(* unique rule, decide.                                                    *)
(***************************************************************************)
C4_StackOnlyBelowCap ==
  [][\A type \in Types :
       AddedStep(type) =>
         /\ out'.rule = "stack" =>
              /\ Config(type).maxStacks > 0
              /\ pool[out'.on].stacks < Config(type).maxStacks
         /\ \A e \in OfType(type) :
              (Config(type).maxStacks > 0 /\ pool[e].stacks >= Config(type).maxStacks)
                => /\ \A i \in DOMAIN out'.fired : out'.fired[i][2] # "effectStackAdded"
                   /\ Config(type).refreshes => out'.rule = "refresh"
                   /\ (~Config(type).refreshes /\ Config(type).unique) => ~out'.ok]_vars

(***************************************************************************)
(* C5: emit('updateTick') delivers the event to an effect with a numeric   *)
(* tickInterval only if at least tickInterval seconds have passed since    *)
(* the tick last delivered to it.                                          *)
(***************************************************************************)
C5_TickGate ==
  [][\A e \in Ids :
       (TickDelivered(e) /\ NumericInterval(pool[e]) /\ pool[e].tickedAt # Never)
         => now - pool[e].tickedAt >= Config(pool[e].type).tickInterval * MsPerSec]_vars

(***************************************************************************)
(* C6: every updateTick delivered to an effect with a numeric tickInterval *)
(* adds exactly 1 to its state.ticks and stamps state.lastTick with the    *)
(* time of the delivery.                                                   *)
(***************************************************************************)
C6_TickCounts ==
  [][\A e \in Ids :
       (TickDelivered(e) /\ NumericInterval(pool[e]))
         => (pool'[e].ticks = pool[e].ticks + 1 /\ pool'[e].lastTick = now)]_vars

(***************************************************************************)
(* C7: an effect whose tickInterval is false is never delivered an         *)
(* updateTick by the list's emit.                                          *)
(***************************************************************************)
C7_NoTickWithoutInterval ==
  (out.op = "emit" /\ out.event = "updateTick") =>
    \A i \in DOMAIN out.fired : NumericInterval(pool[out.fired[i][1]])

(***************************************************************************)
(* C8: evaluateIncomingDamage and evaluateOutgoingDamage return a number   *)
(* that is at least 0, whatever the amount and the members' modifiers: a   *)
(* negative or non-numeric result of the fold is returned as 0.            *)
(***************************************************************************)
C8_DamageNotNegative ==
  out.op \in {"evaluateIncomingDamage", "evaluateOutgoingDamage"} =>
    /\ ~out.val.nan
    /\ out.val.v >= 0
    /\ (out.raw.nan \/ out.raw.v < 0) => out.val = Num(0)

\* two members' modifiers composed to a negative amount, which came back as 0
C8_Witness ==
  /\ out.op = "evaluateIncomingDamage"
  /\ Len(out.seen) = 2
  /\ ~out.raw.nan
  /\ out.raw.v < 0
  /\ out.val = Num(0)

\* a modifier left a non-number, which came back as 0
C8_WitnessNaN ==
  /\ out.op = "evaluateOutgoingDamage"
  /\ out.raw.nan
  /\ out.val = Num(0)

(***************************************************************************)
(* C9: size, entries(), the evaluate* methods, emit and serialize first    *)
(* remove every member that is no longer current: after each of them the   *)
(* list holds no expired effect, and the size, the entries, the effects    *)
(* folded over or serialized and the effects an event was delivered to are *)
(* all current members.                                                    *)
(***************************************************************************)
C9_ReadsSeeNoExpired ==
  out.op \in ReadOps =>
    /\ \A e \in Range(effects) : IsCurrent(pool[e], now)
    /\ \A e \in Range(out.seen) : e \in Range(effects) /\ IsCurrent(pool[e], now)
    /\ \A i \in DOMAIN out.fired :
         out.fired[i][1] \in Range(effects) /\ IsCurrent(pool[out.fired[i][1]], now)
    /\ out.op \in {"size", "entries"} => out.size = Len(effects)

\* a read swept an expired member away and folded over the one that was left
C9_Witness ==
  /\ out.op = "evaluateAttribute"
  /\ Len(out.notes) = 1
  /\ Len(out.seen) = 1
  /\ pool[out.notes[1][2]].deactivated

(***************************************************************************)
(* C10: add() resolves stacking, refresh and uniqueness only against       *)
(* effects that are still current: the rule that decides is never taken on *)
(* a member whose isCurrent() is false, and when every member of the type  *)
(* has expired the new effect is inserted.                                 *)
(***************************************************************************)
C10_ScanSkipsExpired ==
  [][\A type \in Types :
       AddedStep(type) =>
         /\ out'.rule \in {"stack", "refresh", "unique"} => IsCurrent(pool[out'.on], now)
         /\ (OfType(type) # {} /\ ActiveOfType(type) = {}) => out'.rule = "insert"]_vars

(***************************************************************************)
(* Helpers of the properties of OwnSpec.                                   *)
(***************************************************************************)
\* how often a call occurs in the record of the last operation
Count(x) == Cardinality({i \in DOMAIN trace.events : trace.events[i] = x})

\* the lists an instance is a member of
ListsOf(e) == {ent \in Entities : e \in Range(lists[ent])}

\* the calls of deactivate() in the record of the last operation
Deactivations == {i \in DOMAIN trace.events : trace.events[i][1] = "deactivate"}

\* C11: in every reachable state of several entities, every member of a list has the
\* list's owner as its target, and no effect instance is a member of two lists.
C11_OneOwner ==
  /\ \A ent \in Entities : \A e \in Range(lists[ent]) : inst[e].owner = ent
  /\ \A e \in Ids : Cardinality(ListsOf(e)) <= 1

\* both entities own an effect, entity 1 after being hydrated, and the last call tried
\* to add a member of one list to the other
C11_Witness ==
  /\ hyd[1]
  /\ \A ent \in Entities : lists[ent] # <<>>
  /\ trace.op = "add"
  /\ trace.threw
  /\ ListsOf(trace.on) = Entities \ {trace.ent}

\* C12: add() of an effect whose target is set throws and changes nothing, so an effect
\* that has left a list (removed, expired or cleared) is never a member of any list again.
C12_AttachedRejected ==
  [][/\ (trace'.op = "add" /\ inst[trace'.on].owner # 0)
          => (trace'.threw /\ lists' = lists /\ inst' = inst)
     /\ \A e \in Ids : \A ent \in Entities :
          (inst[e].owner # 0 /\ e \notin Range(lists[ent])) => e \notin Range(lists'[ent])
    ]_vars

\* an effect that was removed (and deactivated) was handed to add() again
C12_Witness ==
  /\ trace.op = "add"
  /\ trace.threw
  /\ inst[trace.on].deact = 1
  /\ ListsOf(trace.on) = {}

\* C13: remove() of a non-member throws ReferenceError with no deactivation, no
\* effectRemoved and no change; remove() of a member deactivates it, deletes it and then
\* emits effectRemoved on the owner, in that order.
C13_RemoveOrder ==
  [][trace'.op \in {"remove", "signal"} =>
       LET e == trace'.on
           ent == trace'.ent
       IN IF e \in Range(lists[ent])
          THEN /\ ~trace'.threw
               /\ Len(trace'.events) >= 3
               /\ SubSeq(trace'.events, 1, 3) =
                    << <<"deactivate", "", e>>, <<"delete", "", e>>,
                       <<"listeners", "effectRemoved", e>> >>
               /\ inst'[e].deact = inst[e].deact + 1
               /\ e \notin Range(lists'[ent])
          ELSE /\ trace'.threw
               /\ trace'.events = << <<"throw", "ReferenceError", 0>> >>
               /\ lists' = lists
               /\ inst' = inst
    ]_vars

\* a member was removed, and the relay of its effectRemoved swept another member out
C13_Witness ==
  /\ trace.op = "remove"
  /\ ~trace.threw
  /\ Cardinality(Deactivations) = 2

\* C14: deactivate() is called at most once for an effect, only by remove() right before
\* the deletion; when several effects expire together and the relay of effectRemoved
\* re-enters the sweep, each is removed and reported exactly once and the sweep completes.
C14_DeactivatedOnce ==
  /\ \A e \in Ids : inst[e].deact <= 1
  /\ \A e \in Ids : inst[e].deact = 1 => ListsOf(e) = {}
  /\ \A i \in Deactivations :
       /\ i + 2 <= Len(trace.events)
       /\ trace.events[i + 1] = <<"delete", "", trace.events[i][3]>>
       /\ trace.events[i + 2] = <<"listeners", "effectRemoved", trace.events[i][3]>>
  /\ \A e \in Ids :
       /\ Count(<<"deactivate", "", e>>) <= 1
       /\ Count(<<"listeners", "effectRemoved", e>>) = Count(<<"deactivate", "", e>>)
  /\ trace.op \in {"size", "emit"} =>
       /\ Count(<<"throw", "ReferenceError", 0>>) = 0
       /\ ~trace.threw => \A e \in Range(lists[trace.ent]) : StillCurrent(inst[e])

\* two effects had expired when the size was read: the sweep removed both
C14_Witness ==
  /\ trace.op = "size"
  /\ ~trace.threw
  /\ Cardinality(Deactivations) = 2


(***************************************************************************)
(* Helpers of the properties of EntSpec.                                   *)
(***************************************************************************)
\* the calls that report the current value of an attribute
ReportsCurrent ==
  {"getAttribute", "raiseAttribute", "lowerAttribute", "setAttributeToMax", "setAttributeBase"}

\* the members of an entity's list of a type
MembersOf(ent, type) == {e \in Range(lists[ent]) : inst[e].type = type}

\* C15: serializing an entity and hydrating a fresh entity of the same definition from
\* the data gives equal (base, delta) for every attribute and, in the same order, the
\* persisting effects that were current, with their ids and state (stack counts); effects
\* that do not persist and effects that had expired are absent.
C15_RoundTrip ==
  [][trace'.op = "reload" =>
       LET ent == trace'.ent
           expected == SelectSeq(lists[ent], LAMBDA e :
                         StillCurrent(inst[e]) /\ Config(inst[e].type).persists)
       IN /\ ~trace'.threw
          /\ trace'.seen.attributes = SerializedAttributes(attrs[ent])
          /\ trace'.seen.effects = [i \in DOMAIN expected |-> SerializedEffect(inst[expected[i]])]
    ]_vars

\* an entity with a changed attribute, a persisting poison and a ward that does not
\* persist was saved and loaded: the poison is there again
C15_Witness ==
  /\ trace.op = "reload"
  /\ trace.seen.effects = << [type |-> "poison", stacks |-> 1] >>
  /\ MembersOf(trace.ent, "ward") # {}
  /\ MembersOf(trace.ent, "poison") # {}
  /\ attrs[trace.ent]["strength"].delta # 0
  /\ trace.seen.attributes["strength"].delta = attrs[trace.ent]["strength"].delta

\* C16: whatever was raised, lowered, set and added before, the current value of an
\* attribute is its effect-adjusted max plus its delta, and raising, lowering or
\* resetting the delta leaves every base as it was.
C16_CurrentIsMaxPlusDelta ==
  [][/\ (trace'.op \in ReportsCurrent /\ ~trace'.threw) =>
          trace'.val =
            MaxAttribute(lists'[trace'.ent], inst', attrs'[trace'.ent], trace'.name).val
              + attrs'[trace'.ent][trace'.name].delta
     /\ trace'.op \in {"raiseAttribute", "lowerAttribute", "setAttributeToMax"} =>
          \A name \in AttrNames :
            attrs'[trace'.ent][name].base = attrs[trace'.ent][name].base
    ]_vars

\* the current strength was read while a regen adjusted it and its delta was not 0
C16_Witness ==
  /\ trace.op = "getAttribute"
  /\ ~trace.threw
  /\ trace.name = "strength"
  /\ attrs[trace.ent]["strength"].delta # 0
  /\ MembersOf(trace.ent, "regen") # {}

\* C17: the max of an attribute with a formula is the formula applied to the attribute's
\* own effect-folded value and, for each attribute it requires, that attribute's
\* effect-adjusted max, not its base.
C17_FormulaUsesAdjusted ==
  (trace.op = "getMaxAttribute" /\ ~trace.threw /\ HasFormula(trace.name)) =>
    LET ent == trace.ent
        name == trace.name
    IN trace.val =
         FormulaEvaluate(name,
           EvaluatedAttribute(lists[ent], inst, attrs[ent], name),
           [i \in DOMAIN Requires(name) |->
              EvaluatedAttribute(lists[ent], inst, attrs[ent], Requires(name)[i])])

\* the max of power was read with strength at base 10 under an active +5 effect: the
\* formula was handed 15
C17_Witness ==
  /\ trace.op = "getMaxAttribute"
  /\ ~trace.threw
  /\ trace.name = "power"
  /\ attrs[trace.ent]["strength"].base = 10
  /\ MembersOf(trace.ent, "regen") # {}
  /\ trace.val = EvaluatedAttribute(lists[trace.ent], inst, attrs[trace.ent], "power") + 15

\* C18: a hydrate call on an entity whose __hydrated is true changes neither the
\* attributes nor the list nor the flag, and the flag never goes back.
C18_HydrateOnce ==
  [][/\ (trace'.op = "hydrate" /\ hyd[trace'.ent]) =>
          /\ lists' = lists
          /\ inst' = inst
          /\ attrs' = attrs
          /\ pend' = pend
          /\ hyd' = hyd
     /\ \A ent \in Entities : hyd[ent] => hyd'[ent]
    ]_vars

\* hydrate was called on an entity whose strength base had been set since it was
\* hydrated and which holds an effect
C18_Witness ==
  /\ trace.op = "hydrate"
  /\ hyd[trace.ent]
  /\ attrs[trace.ent]["strength"].base = 12
  /\ lists[trace.ent] # <<>>

\* C19: emit(event) of an event other than effectAdded and effectRemoved hands the event
\* exactly once to every unpaused member left after the sweep, but for those the
\* updateTick gate holds back, and to no paused one; effectAdded and effectRemoved are
\* handed to no effect.
C19_EmitDelivery ==
  out.op = "emit" =>
    LET got == {out.fired[i][1] : i \in DOMAIN out.fired} IN
    IF out.event \in {"effectAdded", "effectRemoved"} THEN out.fired = <<>>
    ELSE /\ \A i \in DOMAIN out.fired : out.fired[i][2] = out.event
         /\ \A i, j \in DOMAIN out.fired : out.fired[i][1] = out.fired[j][1] => i = j
         /\ \A e \in got : e \in Range(effects) /\ ~pool[e].paused
         /\ \A e \in Range(effects) :
              (~pool[e].paused /\ e \notin got)
                => (out.event = "updateTick" /\ Gated(pool[e], out.event, now))

\* an event was emitted into a list with a paused and an unpaused member
C19_Witness ==
  /\ out.op = "emit"
  /\ out.event = "damaged"
  /\ Len(out.fired) = 1
  /\ \E e \in Range(effects) : pool[e].paused

\* C20: an event emitted on an entity reaches the entity's own listeners first and is
\* then relayed, with the same name and argument, into its list; no emit skips either.
C20_ListenersThenRelay ==
  /\ \A i \in DOMAIN trace.events :
       /\ trace.events[i][1] = "listeners" =>
            /\ i < Len(trace.events)
            /\ trace.events[i + 1] = <<"relay", trace.events[i][2], trace.events[i][3]>>
       /\ trace.events[i][1] = "relay" =>
            /\ i > 1
            /\ trace.events[i - 1] = <<"listeners", trace.events[i][2], trace.events[i][3]>>
  /\ trace.op = "emit" =>
       /\ Len(trace.events) >= 2
       /\ trace.events[1][1] = "listeners"
       /\ trace.events[1][3] = 0

\* an event emitted on an entity was delivered to an effect of its list, after the sweep
\* it started had emitted effectRemoved on the entity for an expired one
C20_Witness ==
  /\ trace.op = "emit"
  /\ trace.events[1] = <<"listeners", "damaged", 0>>
  /\ Cardinality(Deactivations) = 1
  /\ \E e \in Ids : Count(<<"effect", "damaged", e>>) = 1

\* C21: an add() that no same-type rule stops inserts the effect, sets its target to the
\* owner, emits effectAdded on the effect and then on the owner and returns true; a later
\* 'remove' signal of the member deactivates it, deletes it and emits effectRemoved on the
\* owner before the signal returns.  (An effect that is over as it is inserted is swept out
\* by the relay of effectAdded; what add() leaves of it is the matter of C33.)
C21_InsertThenSignal ==
  [][/\ (trace'.op = "add" /\ trace'.rule = "insert") =>
          LET e == trace'.on IN
          /\ trace'.ok
          /\ ~trace'.threw
          /\ Len(trace'.events) >= 2
          /\ SubSeq(trace'.events, 1, 2) =
               << <<"effect", "effectAdded", e>>, <<"listeners", "effectAdded", e>> >>
          /\ inst'[e].owner = trace'.ent
          /\ inst'[e].listening
          /\ StillCurrent(inst'[e]) => e \in Range(lists'[trace'.ent])
     /\ (trace'.op = "signal" /\ trace'.on \in Range(lists[trace'.ent])) =>
          LET e == trace'.on IN
          /\ ~trace'.threw
          /\ SubSeq(trace'.events, 1, 3) =
               << <<"deactivate", "", e>>, <<"delete", "", e>>,
                  <<"listeners", "effectRemoved", e>> >>
          /\ e \notin Range(lists'[trace'.ent])
          /\ inst'[e].deact = 1
    ]_vars

\* a member signalled 'remove' and is gone from its list
C21_Witness ==
  /\ trace.op = "signal"
  /\ ~trace.threw
  /\ inst[trace.on].deact = 1
  /\ inst[trace.on].listening
  /\ ListsOf(trace.on) = {}

\* C22: a paused effect contributes nothing to any of the four evaluate* folds: each result
\* is the input folded through the unpaused live members only, as if the paused effect were
\* absent.
C22_PausedContributesNothing ==
  LET used == Unpaused(effects, pool) IN
  /\ out.op = "evaluateAttribute" => out.val = Num(FoldAttribute(used, pool, out.arg.v))
  /\ out.op = "evaluateProperty" => out.val = Num(FoldProperty(used, pool, out.arg.v))
  /\ out.op = "evaluateIncomingDamage" => out.val = ClampDamage(FoldIncoming(used, pool, out.arg))
  /\ out.op = "evaluateOutgoingDamage" => out.val = ClampDamage(FoldOutgoing(used, pool, out.arg))

\* C23: the entity's evaluateIncomingDamage and evaluateOutgoingDamage both return the list's
\* result floored: a non-negative integer.
C23_DamageFloored ==
  (trace.op \in {"evaluateIncomingDamage", "evaluateOutgoingDamage"} /\ ~trace.threw) =>
    /\ ~trace.amount.nan
    /\ ~trace.amount.half
    /\ trace.amount.v >= 0

\* C24 (as stated): clear() empties the list, deactivates no member and emits no
\* effectRemoved; right after it size is 0 and every evaluate* call returns the unmodified
\* input.
C24_ClearLeavesInput ==
  [][/\ out'.op = "clear" =>
          /\ effects' = <<>> /\ out'.notes = <<>> /\ out'.fired = <<>>
          /\ \A e \in Ids : pool'[e].deactivated = pool[e].deactivated
     /\ out.op = "clear" =>
          /\ out'.op = "size" => out'.size = 0
          /\ out'.op \in {"evaluateAttribute", "evaluateProperty", "evaluateIncomingDamage",
                           "evaluateOutgoingDamage"} => out'.val = out'.arg
    ]_vars

\* C24 (amended): clear() empties the list, deactivates no member and emits no effectRemoved;
\* right after it size is 0 and every evaluate* call applies no modifier: the attribute base
\* and the property value come back as given, a damage amount clamped to a non-negative
\* number.
C24_ClearBypasses ==
  [][/\ out'.op = "clear" =>
          /\ effects' = <<>> /\ out'.notes = <<>> /\ out'.fired = <<>>
          /\ \A e \in Ids : pool'[e].deactivated = pool[e].deactivated
     /\ out.op = "clear" =>
          /\ out'.op = "size" => out'.size = 0
          /\ out'.op \in {"evaluateAttribute", "evaluateProperty"} => out'.val = out'.arg
          /\ out'.op \in {"evaluateIncomingDamage", "evaluateOutgoingDamage"} =>
               out'.val = ClampDamage(out'.arg)
    ]_vars

C24_Witness ==
  /\ out.op = "clear"
  /\ effects = <<>>
  /\ \E e \in Ids : pool[e].target /\ pool[e].type = "none" /\ ~pool[e].deactivated

Mutators == {"raiseAttribute", "lowerAttribute", "setAttributeBase", "setAttributeToMax"}

\* the attributeUpdate notifications the entity's listeners heard during a call
Updates(events) ==
  SelectSeq(events, LAMBDA x : x[1] = "listeners" /\ x[2] = "attributeUpdate")

\* C25: raiseAttribute, lowerAttribute, setAttributeBase and setAttributeToMax throw, change
\* no attribute and emit no attributeUpdate when the entity lacks the attribute; otherwise
\* each emits exactly one attributeUpdate(name, value) and the value is getAttribute(name)
\* after the change.
C25_MutatorsNotify ==
  [][trace'.op \in Mutators =>
       LET ent == trace'.ent
           name == trace'.name
       IN /\ ~attrs[ent][name].has =>
               trace'.threw /\ attrs' = attrs /\ Updates(trace'.events) = <<>>
          /\ ~trace'.threw =>
               Updates(trace'.events) =
                 << <<"listeners", "attributeUpdate",
                      <<name, CurrentValue(MaxAttribute(lists'[ent], inst', attrs'[ent], name).val,
                                           attrs'[ent][name].delta)>> >> >>
    ]_vars

C25_Witness ==
  /\ trace.op = "raiseAttribute"
  /\ ~trace.threw
  /\ Len(Updates(trace.events)) = 1
  /\ lists[trace.ent] # <<>>

\* the data the entity was constructed with makes hydrate() throw
BadAttributes(g) ==
  \E name \in AttrNames : g[name].kind # "none" /\ (g[name].kind = "invalid" \/ ~g[name].known)

\* C26: hydrate() throws when an attribute spec is neither a number nor an object with a
\* base, or when the registry does not know an attribute name; the entity is then still not
\* hydrated and its effect list untouched, so every later hydrate() runs (and throws) again
\* instead of returning as a no-op.
C26_HydrateFailsHard ==
  [][(trace'.op = "hydrate" /\ BadAttributes(given[trace'.ent])) =>
       /\ trace'.threw
       /\ ~hyd[trace'.ent] /\ ~hyd'[trace'.ent]
       /\ lists' = lists /\ inst' = inst /\ pend' = pend
    ]_vars

C26_Witness ==
  /\ trace.op = "hydrate"
  /\ trace.threw
  /\ BadAttributes(given[trace.ent])
  /\ ~hyd[trace.ent]
  /\ pend[trace.ent] # <<>>
  /\ attrs[trace.ent]["strength"].has /\ ~attrs[trace.ent]["power"].has

\* C27: loadPlayer(state, account, username) without force, for a username of any letter
\* case whose player the manager holds, returns that player, asks the loader nothing and
\* constructs and registers no player.
C27_HeldPlayerReturned ==
  [][(said'.op = "loadPlayer" /\ ~said'.force /\ HasLowered(players, said'.username)) =>
       /\ said'.player = PlayerNamed(players, said'.username)
       /\ ~said'.fetched /\ ~said'.threw
       /\ players' = players /\ made' = made /\ pending' = pending
    ]_vars

\* C28: send() on a channel whose eventOnly is true makes no Broadcast call, neither to the
\* sender nor to the audience; it only fires channelSend and channelReceive.
C28_EventOnlyIsSilent ==
  (said.op = "send" /\ said.eventOnly) =>
    \A i \in DOMAIN said.calls : said.calls[i][1] \notin {"sayAt", "sayAtFormatted"}

\* the attributes a definition requires, and all those its evaluation comes to ask for
Deps(g, name) == {g[name][i] : i \in DOMAIN g[name]}

RECURSIVE Closure(_, _, _)
Closure(g, names, k) ==
  IF k = 0 THEN names
  ELSE Closure(g, names \cup UNION {Deps(g, name) : name \in names}, k - 1)

Reach(g, name) == Closure(g, Deps(g, name), Cardinality(AttrNames))

\* the formula dependencies of the attribute contain a cycle
Cyclic(g, name) == \E other \in {name} \cup Reach(g, name) : other \in Reach(g, other)

\* C29: getMaxAttribute(name) returns when the formula dependencies of the attribute are
\* acyclic; when they contain a cycle it never returns a value: nothing stops the recursion,
\* which goes on until the call stack is exhausted.
C29_ReturnsIffAcyclic ==
  /\ [](result.how = "returned" => ~Cyclic(requires, result.of))
  /\ [](result.how = "overflow" => Cyclic(requires, result.of))
  /\ (result.how = "running" /\ ~Cyclic(requires, result.of)) ~> (result.how = "returned")
  /\ (result.how = "running" /\ Cyclic(requires, result.of)) ~> (result.how = "overflow")

C29_Witness ==
  /\ result.how = "running"
  /\ Cyclic(requires, result.of)
  /\ Len(stack) = MaxDepth
  /\ \E i, j \in DOMAIN stack : i < j /\ stack[i].name = stack[j].name

\* the entries of a call's record that tell of a delivery of `event` by the entity's emit
Delivered(events, event) ==
  SelectSeq(events, LAMBDA x : x[1] \in {"listeners", "relay", "effect", "quests"} /\ x[2] = event)

\* C30: Player.emit returns false and reaches no listener, no effect and no quest tracker
\* while the player is not hydrated or is pruned; otherwise the event reaches the player's
\* listeners, then the effect list, then the quest tracker.  The effectAdded notifications
\* raised while the player's effects are hydrated are not delivered.
C30_PlayerEmitGated ==
  [][/\ (trace'.op = "emit" /\ plr[trace'.ent].is) =>
          LET ent == trace'.ent
              ev == trace'.events
          IN IF plr[ent].pruned \/ ~hyd[ent]
             THEN /\ ~trace'.ok /\ ~trace'.threw
                  /\ Len(ev) = 1 /\ ev[1][1] = "dropped"
                  /\ lists' = lists /\ inst' = inst
             ELSE /\ trace'.ok /\ ~trace'.threw
                  /\ LET mine == Delivered(SelectSeq(ev, LAMBDA x : x[3] = 0 \/ x[1] = "effect"),
                                           ev[1][2])
                     IN /\ Len(mine) >= 3
                        /\ mine[1][1] = "listeners"
                        /\ mine[2][1] = "relay"
                        /\ \A i \in 3..(Len(mine) - 1) : mine[i][1] = "effect"
                        /\ mine[Len(mine)][1] = "quests"
                  /\ ev[1][1] = "listeners" /\ ev[Len(ev)][1] = "quests"
     /\ (trace'.op = "hydrate" /\ plr[trace'.ent].is) =>
          SelectSeq(Delivered(trace'.events, "effectAdded"), LAMBDA x : x[1] # "effect") = <<>>
    ]_vars

C30_Witness ==
  /\ trace.op = "hydrate"
  /\ plr[trace.ent].is
  /\ hyd[trace.ent]
  /\ \E i, j \in DOMAIN trace.events :
       /\ trace.events[i][1] = "effect" /\ trace.events[i][2] = "effectAdded"
       /\ trace.events[j][1] = "dropped" /\ trace.events[j][2] = "effectAdded"
       /\ trace.events[i][3] = trace.events[j][3]

\* C31: after removePlayer(player) the manager does not return the player for its name; the
\* player is pruned, its list is empty, none of its members was deactivated and no
\* effectRemoved was emitted; and every later emit on the player, updateTick of tickAll,
\* saved of a save that was in flight and enterRoom of moveTo included, returns false and
\* reaches no listener, effect or quest tracker.
C31_RemovedPlayerIsGone ==
  /\ [](\A p \in DOMAIN made :
          made[p].pruned => (plr[p].pruned /\ PlayerNamed(players, made[p].name) # p))
  /\ [][/\ (said'.op = "removePlayer" /\ trace'.op = "clear") =>
             LET ent == said'.player IN
             /\ PlayerNamed(players', made[ent].name) # ent
             /\ plr'[ent].pruned
             /\ lists'[ent] = <<>> /\ pend'[ent] = <<>>
             /\ trace'.events = <<>> /\ ~trace'.threw
             /\ \A e \in Ids : inst'[e].deact = inst[e].deact
        /\ (trace'.op \in {"emit", "moveTo"} /\ made[trace'.ent].pruned) =>
             /\ ~trace'.ok /\ ~trace'.threw
             /\ \A i \in DOMAIN trace'.events : trace'.events[i][1] = "dropped"
             /\ lists' = lists /\ inst' = inst
       ]_vars

\* C32: whatever the interleaving of loadPlayer calls without force for one username, each
\* suspended at the loader's fetch, one Player instance at most is constructed and registered
\* for the username, and every call returns that instance.
C32_OneInstancePerName ==
  /\ \A p, q \in DOMAIN made : made[p].name = made[q].name => p = q
  /\ said.op = "loaded" => said.player = PlayerNamed(players, said.username)
  /\ said.op = "loaded" => \A p \in DOMAIN made : made[p].name = said.username => p = said.player

\* C33: when add(effect) has returned true after inserting the effect, the effect is a member
\* of the list with the list's owner for target, it has not been deactivated, and the list's
\* removal listener is registered on it, so that its 'remove' signal finds a member; also
\* when the effect's isCurrent() was false already as it was added.
C33_InsertedIsMember ==
  (trace.op = "add" /\ trace.rule = "insert" /\ trace.ok /\ ~trace.threw) =>
    LET e == trace.on IN
    /\ IsMember(lists[trace.ent], e)
    /\ inst[e].owner = trace.ent
    /\ inst[e].deact = 0
    /\ inst[e].listening

\* C34: hasEffectType(type) and getByType(type) report an effect only if it is still current:
\* they answer as a lookup among the members that size and entries() report in the same
\* state, so that a list whose only effect of the type is over answers false and undefined.
C34_LookupSeesCurrentOnly ==
  (trace.op = "hasEffectType" /\ ~trace.threw) =>
    LET type == trace.events[Len(trace.events)][2]
        which == trace.events[Len(trace.events)][3]
        current == SelectSeq(lists[trace.ent],
                             LAMBDA e : inst[e].type = type /\ StillCurrent(inst[e]))
    IN /\ trace.ok <=> current # <<>>
       /\ which = (IF current = <<>> THEN 0 ELSE Head(current))

\* C35: the listener add() registered on an effect stays registered when the effect has left
\* the list; when an effect that is no member (removed, swept, signalled before, or dropped
\* by clear()) signals 'remove', remove() throws ReferenceError to the emitter and the list
\* and the effects are left as they were.
C35_StaleListenerThrows ==
  [][/\ \A e \in Ids : inst[e].listening => inst'[e].listening
     /\ (trace'.op = "signal" /\ ~IsMember(lists[trace'.ent], trace'.on)) =>
          /\ trace'.threw
          /\ trace'.events = << <<"throw", "ReferenceError", 0>> >>
          /\ lists' = lists
          /\ inst' = inst
    ]_vars

\* an effect that left its list without being deactivated signalled 'remove': the list threw
C35_Witness ==
  /\ trace.op = "signal"
  /\ trace.threw
  /\ inst[trace.on].listening
  /\ inst[trace.on].deact = 0
  /\ inst[trace.on].owner = trace.ent
  /\ ~IsMember(lists[trace.ent], trace.on)

\* C36: Player.hydrate on a player that is hydrated already leaves the player as it is:
\* attributes and effects are not added again, and the equipment map and the room are those
\* the first hydration left.
C36_SecondHydrateChangesNothing ==
  [][(trace'.op = "hydrate" /\ plr[trace'.ent].is /\ hyd[trace'.ent]) =>
       /\ plr'[trace'.ent] = plr[trace'.ent]
       /\ attrs' = attrs
       /\ lists' = lists
       /\ inst' = inst
    ]_vars

\* C37: whatever addRoom and removeRoom calls were made, every room getRoomAtCoordinates
\* returns is held in the rooms map under its id, and a room that removeRoom removed is not
\* found at its coordinates.
C37_MapAgreesWithRooms ==
  /\ \A c \in Coordinates :
       LET room == RoomAt(floors, c[1], c[2], c[3]) IN
       room # NoRoom => rooms[room.id] = room
  /\ (found.op = "removeRoom" /\ found.room.coordinates # NoCoordinates) =>
       LET c == found.room.coordinates IN RoomAt(floors, c[1], c[2], c[3]) # found.room

\* the entries of a record of calls that are of one kind and about one event
Heard(calls, kind, event) == SelectSeq(calls, LAMBDA x : x[1] = kind /\ x[2] = event)

\* C38: onProgressUpdated with an overall progress of 100% or more completes the quest if
\* autoComplete is set (the quest's listeners hear 'complete', every goal is sent 'complete',
\* and then complete() is called on every goal) and emits 'turn-in-ready' otherwise, without
\* any 'progress' event; below 100% it emits 'progress' once, to the quest's listeners and to
\* no goal.
C38_ProgressOutcome ==
  heard.op = "onProgressUpdated" =>
    LET calls == heard.calls
        goals == DOMAIN quest.goals
        At(entry) == CHOOSE i \in DOMAIN calls : calls[i] = entry
    IN /\ heard.percent = GetProgress(quest)
       /\ AtLeast(heard.percent, 100) =>
            /\ \A i \in DOMAIN calls : calls[i][2] # "progress"
            /\ IF quest.autoComplete
               THEN /\ calls[1] = <<"listeners", "complete", 0>>
                    /\ Len(Heard(calls, "listeners", "complete")) = 1
                    /\ Len(Heard(calls, "goal", "complete")) = Cardinality(goals)
                    /\ Len(Heard(calls, "goal.complete", "")) = Cardinality(goals)
                    /\ \A i, j \in goals :
                         /\ <<"goal", "complete", i>> \in Range(calls)
                         /\ <<"goal.complete", "", j>> \in Range(calls)
                         /\ At(<<"goal", "complete", i>>) < At(<<"goal.complete", "", j>>)
                    /\ Heard(calls, "listeners", "turn-in-ready") = <<>>
               ELSE /\ Heard(calls, "listeners", "turn-in-ready")
                         = << <<"listeners", "turn-in-ready", 0>> >>
                    /\ \A i \in DOMAIN calls : calls[i][2] = "turn-in-ready"
       /\ (~heard.percent.nan /\ heard.percent.v < 100) =>
            calls = << <<"listeners", "progress", 0>> >>

\* two goals at 99% and 100% make 100% overall, and the quest completed itself
C38_Witness ==
  /\ heard.op = "onProgressUpdated"
  /\ quest.autoComplete
  /\ quest.goals = <<99, 100>>
  /\ heard.percent = Num(100)
  /\ Len(heard.calls) = 5

====
